---- MODULE Spec2Model ----
(***************************************************************************)
(* State-machine model of the ea-woc-league statistics and roster models.  *)
(*                                                                         *)
(* The program is single-threaded and its objects share no mutable state   *)
(* (every accumulator is owned by the one entity that created it), so a    *)
(* behaviour of the model constructs ONE object (variable `entity` names   *)
(* its class) and then applies that class's methods to it, one call per    *)
(* step.  `calls` counts the calls made and `last` records the last call:  *)
(* its name, its argument and the exception it raised ("none" if it        *)
(* returned normally).                                                     *)
(***************************************************************************)
EXTENDS Integers, Sequences, FiniteSets, TLC

----------------------------------------------------------------------------
(* Bounds of the model *)

\* number of distinct player ids (UUIDs) the roster operations are called with
NumPlayers == 2
\* number of method calls made on the object under construction
MaxCalls == 3
\* number of method calls made on an EventBus
MaxBusCalls == 4

Players == 1..NumPlayers

\* league/enums/types.py: ManagerRole members used as add_manager arguments
ManagerRoles == {"GM", "AGM"}

VARIABLES
    entity,              \* class of the object this behaviour works on
    calls,               \* number of method calls made so far
    last,                \* [op, arg, raised] of the last call
    current_roster,      \* league LeagueTeam.current_roster : Set[UUID]
    historical_players,  \* league LeagueTeam.historical_players : Dict[UUID, PlayerStats]
    management,          \* league LeagueTeam.management : Dict[UUID, ManagerRole]
    active_players,      \* TeamRoster.active_players : List[LeaguePlayer]
    inactive_players,    \* TeamRoster.inactive_players : List[LeaguePlayer]
    team_stats,          \* a league TeamStats accumulator
    v2_team,         \* a league_v2 LeagueTeam: [current_season, ea_club_id, season_stats]
    match_log,           \* the (match_id, stats) arguments of the add_match calls made
    lg_player,           \* a league LeaguePlayer: [ea_id, position, stats]
    v2_player,       \* a league_v2 LeaguePlayer: [ea_id, position, current_season, season_stats]
    game_log,            \* the (match_id, stats) of the games add_game_stats has counted
    fold_season,         \* a league_v2 SeasonStats that games are added to directly
    pool,                \* the games (id -> stats) that are added to `fold_season`
    ea_match,            \* a models.game.ea_match.Match: [clubs, players, aggregate]
    ret,                 \* what the last call returned
    context,             \* a LeagueContext: [state, teams, players, pending_trades]
    published,           \* the events the LeagueContext has handed to event_bus.publish
    handlers,            \* EventBus._handlers : Dict[LeagueEventType, List[EventHandler]]
    received,            \* the (handler, event) invocations made by EventBus.publish
    model_player,        \* a league.models.player.LeaguePlayer that methods are called on
    package              \* a TradePackage: [participants], with its LeaguePlayer objects

vars == <<entity, calls, last, current_roster, historical_players, management,
          active_players, inactive_players, team_stats, v2_team, match_log,
          lg_player, v2_player, game_log, fold_season, pool,
          ea_match, ret, context, published, handlers, received,
          model_player, package>>

leagueTeamVars == <<current_roster, historical_players, management>>
teamRosterVars == <<active_players, inactive_players>>
teamStatsVars == <<team_stats, v2_team, match_log>>
playerVars == <<lg_player, v2_player, game_log, fold_season, pool>>
gameVars == <<ea_match, ret>>
contextVars == <<context, published>>
busVars == <<handlers, received>>
serviceVars == <<gameVars, contextVars, busVars>>
lifecycleVars == <<model_player, package>>

NoCall == [op |-> "init", arg |-> <<>>, raised |-> "none"]

Called(op, arg, raised) ==
    /\ calls < (IF entity = "EventBus" THEN MaxBusCalls ELSE MaxCalls)
    /\ calls' = calls + 1
    /\ last' = [op |-> op, arg |-> arg, raised |-> raised]
    /\ UNCHANGED entity

----------------------------------------------------------------------------
(* Python containers *)

\* d[k] = v on a dict modelled as a function
DictPut(d, k, v) == [x \in DOMAIN d \cup {k} |-> IF x = k THEN v ELSE d[x]]

\* d.pop(k, None)
DictPop(d, k) == [x \in DOMAIN d \ {k} |-> d[x]]

\* x in lst
InList(lst, x) == \E i \in 1..Len(lst) : lst[i] = x

\* lst.remove(x): drops the first element equal to x (x is known to be in lst)
ListRemove(lst, x) ==
    LET i == CHOOSE j \in 1..Len(lst) :
                 /\ lst[j] = x
                 /\ \A k \in 1..(j - 1) : lst[k] # x
    IN  SubSeq(lst, 1, i - 1) \o SubSeq(lst, i + 1, Len(lst))

----------------------------------------------------------------------------
(* league/models/teams/base_team.py: LeagueTeam *)

\* PlayerStats(): the empty per-team stats bucket
NewPlayerStats == [games_played |-> 0, game_stats |-> << >>]

\* the stats objects update_player_stats is called with
StatsArgs == {NewPlayerStats, [games_played |-> 1, game_stats |-> << >>]}

\* match ids (UUIDs) update_player_stats is called with
MatchUuids == {"m1", "m2"}

\* mutant: the stats bucket is created on every add, also for a known player
HistoricalAfterAdd_reset(hp, player_id) == DictPut(hp, player_id, NewPlayerStats)

\* historical_players after add_roster_player(player_id)
HistoricalAfterAdd(hp, player_id) ==
    IF player_id \notin DOMAIN hp
        THEN DictPut(hp, player_id, NewPlayerStats)
        ELSE hp

\* mutant: the management guard is missing
RosterAfterRemove_unguarded(roster, mgmt, player_id) == roster \ {player_id}

\* current_roster after remove_roster_player(player_id)
RosterAfterRemove(roster, mgmt, player_id) ==
    IF player_id \notin DOMAIN mgmt
        THEN roster \ {player_id}
        ELSE roster

LeagueTeam_add_roster_player(player_id) ==
    /\ entity = "league.LeagueTeam"
    /\ current_roster' = current_roster \cup {player_id}
    /\ historical_players' = HistoricalAfterAdd(historical_players, player_id)
    /\ UNCHANGED <<management, teamRosterVars, teamStatsVars, playerVars, serviceVars>>
    /\ Called("add_roster_player", player_id, "none")
    /\ UNCHANGED lifecycleVars

LeagueTeam_remove_roster_player(player_id) ==
    /\ entity = "league.LeagueTeam"
    /\ current_roster' = RosterAfterRemove(current_roster, management, player_id)
    /\ UNCHANGED <<historical_players, management, teamRosterVars, teamStatsVars, playerVars, serviceVars>>
    /\ Called("remove_roster_player", player_id, "none")
    /\ UNCHANGED lifecycleVars

LeagueTeam_add_manager(player_id, role) ==
    /\ entity = "league.LeagueTeam"
    /\ current_roster' = current_roster \cup {player_id}
    /\ historical_players' = HistoricalAfterAdd(historical_players, player_id)
    /\ management' = DictPut(management, player_id, role)
    /\ UNCHANGED <<teamRosterVars, teamStatsVars, playerVars, serviceVars>>
    /\ Called("add_manager", player_id, "none")
    /\ UNCHANGED lifecycleVars

LeagueTeam_remove_manager(player_id) ==
    /\ entity = "league.LeagueTeam"
    /\ management' = DictPop(management, player_id)
    /\ UNCHANGED <<current_roster, historical_players, teamRosterVars, teamStatsVars, playerVars, serviceVars>>
    /\ Called("remove_manager", player_id, "none")
    /\ UNCHANGED lifecycleVars

LeagueTeam_update_player_stats(player_id, match_id, stats) ==
    /\ entity = "league.LeagueTeam"
    /\ LET hp == HistoricalAfterAdd(historical_players, player_id)
           player_stats == hp[player_id]
       IN  historical_players' =
               DictPut(hp, player_id,
                   [games_played |-> player_stats.games_played + 1,
                    game_stats |-> DictPut(player_stats.game_stats, match_id, stats)])
    /\ UNCHANGED <<current_roster, management, teamRosterVars, teamStatsVars, playerVars, serviceVars>>
    /\ Called("update_player_stats", player_id, "none")
    /\ UNCHANGED lifecycleVars

----------------------------------------------------------------------------
(* league/models/team.py: TeamRoster *)

all_players == active_players \o inactive_players

\* the lists after a successful remove_player(player)
ActiveAfterRemove(active, inactive, player) ==
    IF InList(active, player) THEN ListRemove(active, player) ELSE active

\* mutant: remove_player never removes from inactive_players
InactiveAfterRemove_kept(active, inactive, player) == inactive

InactiveAfterRemove(active, inactive, player) ==
    IF InList(active, player) THEN inactive
    ELSE IF InList(inactive, player) THEN ListRemove(inactive, player)
    ELSE inactive

\* mutant: a player on neither list is ignored silently
RemovePlayerRaises_silent(active, inactive, player) == "none"

\* the exception remove_player(player) raises
RemovePlayerRaises(active, inactive, player) ==
    IF InList(active, player) \/ InList(inactive, player) THEN "none" ELSE "ValueError"

TeamRoster_add_player(player, active) ==
    /\ entity = "TeamRoster"
    /\ IF InList(all_players, player)
         THEN /\ UNCHANGED teamRosterVars
              /\ Called("add_player", player, "ValueError")
         ELSE /\ IF active
                   THEN /\ active_players' = Append(active_players, player)
                        /\ UNCHANGED inactive_players
                   ELSE /\ inactive_players' = Append(inactive_players, player)
                        /\ UNCHANGED active_players
              /\ Called("add_player", player, "none")
    /\ UNCHANGED <<leagueTeamVars, teamStatsVars, playerVars, serviceVars>>
    /\ UNCHANGED lifecycleVars

TeamRoster_remove_player(player) ==
    /\ entity = "TeamRoster"
    /\ active_players' = ActiveAfterRemove(active_players, inactive_players, player)
    /\ inactive_players' = InactiveAfterRemove(active_players, inactive_players, player)
    /\ Called("remove_player", player,
              RemovePlayerRaises(active_players, inactive_players, player))
    /\ UNCHANGED <<leagueTeamVars, teamStatsVars, playerVars, serviceVars>>
    /\ UNCHANGED lifecycleVars

TeamRoster_set_player_status(player, active) ==
    /\ entity = "TeamRoster"
    /\ IF RemovePlayerRaises(active_players, inactive_players, player) = "ValueError"
         THEN /\ UNCHANGED teamRosterVars
              /\ Called("set_player_status", player, "ValueError")
         ELSE LET a == ActiveAfterRemove(active_players, inactive_players, player)
                  i == InactiveAfterRemove(active_players, inactive_players, player)
              IN  IF InList(a \o i, player)
                    THEN /\ active_players' = a
                         /\ inactive_players' = i
                         /\ Called("set_player_status", player, "ValueError")
                    ELSE /\ active_players' = IF active THEN Append(a, player) ELSE a
                         /\ inactive_players' = IF active THEN i ELSE Append(i, player)
                         /\ Called("set_player_status", player, "none")
    /\ UNCHANGED <<leagueTeamVars, teamStatsVars, playerVars, serviceVars>>
    /\ UNCHANGED lifecycleVars

----------------------------------------------------------------------------
(* Numbers: a float rounded to 2 decimals is modelled by its value in       *)
(* hundredths (0.0 is 0, 100.0 is 10000); an evaluation either returns a    *)
(* value or raises.                                                         *)

Returns(v) == [raised |-> "none", value |-> v]
Raises(e) == [raised |-> e, value |-> 0]

\* round(num / den, 2), in hundredths: Python's "/" raises ZeroDivisionError
\* for den = 0, and round() rounds an exact half to the even neighbour
Round2(num, den) ==
    IF den = 0 THEN Raises("ZeroDivisionError")
    ELSE LET n == num * 100
             f == n \div den
             r == n % den
         IN  Returns(IF 2 * r < den THEN f
                     ELSE IF 2 * r > den THEN f + 1
                     ELSE IF f % 2 = 0 THEN f ELSE f + 1)

----------------------------------------------------------------------------
(* models/game/ea_club_stats.py: the ClubStats records of the ingested matches *)

ClubStat(g, ga, s, ppg, ppo, toa) ==
    [goals |-> g, goals_against |-> ga, shots |-> s, powerplay_goals |-> ppg,
     powerplay_opportunities |-> ppo, time_on_attack |-> toa]

\* a win, a loss, a tied score and a scoreless game without a shot
ClubStatsSet ==
    {ClubStat(3, 1, 10, 1, 2, 300), ClubStat(1, 2, 7, 0, 1, 200),
     ClubStat(2, 2, 5, 0, 0, 100), ClubStat(0, 0, 0, 0, 0, 0)}

\* match ids (Match.match_id) of the ingested matches
TeamMatchIds == {"1001", "1002"}

----------------------------------------------------------------------------
(* league/models/stats/team_stats.py: TeamStats *)

NewTeamStats ==
    [matches_played |-> 0, matches |-> << >>, wins |-> 0, losses |-> 0,
     goals_for |-> 0, goals_against |-> 0, shots |-> 0, shots_against |-> 0,
     powerplay_goals |-> 0, powerplay_opportunities |-> 0,
     penalty_kill_goals_against |-> 0, penalty_kill_opportunities |-> 0,
     time_on_attack |-> 0]

\* mutant: a tied score is counted as a win
TeamStats_add_match_tie_wins(acc, match_id, stats) ==
    [acc EXCEPT
        !.matches = DictPut(@, match_id, stats),
        !.matches_played = @ + 1,
        !.wins = IF stats.goals >= stats.goals_against THEN @ + 1 ELSE @,
        !.losses = IF stats.goals >= stats.goals_against THEN @ ELSE @ + 1,
        !.goals_for = @ + stats.goals,
        !.goals_against = @ + stats.goals_against,
        !.shots = @ + stats.shots,
        !.powerplay_goals = @ + stats.powerplay_goals,
        !.powerplay_opportunities = @ + stats.powerplay_opportunities,
        !.time_on_attack = @ + stats.time_on_attack]

\* the accumulator after self.add_match(match_id, stats)
TeamStats_add_match(acc, match_id, stats) ==
    [acc EXCEPT
        !.matches = DictPut(@, match_id, stats),
        !.matches_played = @ + 1,
        !.wins = IF stats.goals > stats.goals_against THEN @ + 1 ELSE @,
        !.losses = IF stats.goals > stats.goals_against THEN @ ELSE @ + 1,
        !.goals_for = @ + stats.goals,
        !.goals_against = @ + stats.goals_against,
        !.shots = @ + stats.shots,
        !.powerplay_goals = @ + stats.powerplay_goals,
        !.powerplay_opportunities = @ + stats.powerplay_opportunities,
        !.time_on_attack = @ + stats.time_on_attack]

TeamStats_add_match_call(match_id, stats) ==
    /\ entity = "TeamStats"
    /\ team_stats' = TeamStats_add_match(team_stats, match_id, stats)
    /\ match_log' = Append(match_log, [match_id |-> match_id, stats |-> stats])
    /\ UNCHANGED <<v2_team, leagueTeamVars, teamRosterVars, playerVars, serviceVars>>
    /\ Called("add_match", match_id, "none")
    /\ UNCHANGED lifecycleVars

----------------------------------------------------------------------------
(* league_v2/models/team_history.py: SeasonTeamStats *)

\* SeasonTeamStats(season=season)
NewSeasonTeamStats(season) ==
    [season |-> season,
     matches_played |-> 0, matches |-> << >>, wins |-> 0, losses |-> 0,
     goals_for |-> 0, goals_against |-> 0, shots |-> 0, shots_against |-> 0,
     powerplay_goals |-> 0, powerplay_opportunities |-> 0,
     penalty_kill_goals_against |-> 0, penalty_kill_opportunities |-> 0,
     time_on_attack |-> 0]

\* mutant: a match id that is already stored is not counted again
SeasonTeamStats_add_match_dedup(acc, match_id, stats) ==
    IF match_id \in DOMAIN acc.matches
        THEN [acc EXCEPT !.matches = DictPut(@, match_id, stats)]
        ELSE TeamStats_add_match(acc, match_id, stats)

\* mutant: the goals scored are added to goals_against
SeasonTeamStats_add_match_slip(acc, match_id, stats) ==
    [TeamStats_add_match(acc, match_id, stats) EXCEPT
        !.goals_against = acc.goals_against + stats.goals]

\* mutant: the powerplays of the match are counted as times shorthanded too
SeasonTeamStats_add_match_shorthanded(acc, match_id, stats) ==
    [TeamStats_add_match(acc, match_id, stats) EXCEPT
        !.penalty_kill_opportunities = @ + stats.powerplay_opportunities,
        !.penalty_kill_goals_against = @ + stats.powerplay_goals]

\* the accumulator after self.add_match(match_id, stats)
SeasonTeamStats_add_match(acc, match_id, stats) ==
    [acc EXCEPT
        !.matches = DictPut(@, match_id, stats),
        !.matches_played = @ + 1,
        !.wins = IF stats.goals > stats.goals_against THEN @ + 1 ELSE @,
        !.losses = IF stats.goals > stats.goals_against THEN @ ELSE @ + 1,
        !.goals_for = @ + stats.goals,
        !.goals_against = @ + stats.goals_against,
        !.shots = @ + stats.shots,
        !.powerplay_goals = @ + stats.powerplay_goals,
        !.powerplay_opportunities = @ + stats.powerplay_opportunities,
        !.time_on_attack = @ + stats.time_on_attack]

\* mutant: the guard for a season without matches is missing
win_percentage_unguarded(acc) == Round2(acc.wins * 100, acc.matches_played)

win_percentage(acc) ==
    IF acc.matches_played = 0 THEN Returns(0)
    ELSE Round2(acc.wins * 100, acc.matches_played)

goals_per_game(acc) ==
    IF acc.matches_played = 0 THEN Returns(0)
    ELSE Round2(acc.goals_for, acc.matches_played)

goals_against_per_game(acc) ==
    IF acc.matches_played = 0 THEN Returns(0)
    ELSE Round2(acc.goals_against, acc.matches_played)

goal_differential(acc) == acc.goals_for - acc.goals_against

SeasonTeamStats_shooting_percentage(acc) ==
    IF acc.shots = 0 THEN Returns(0)
    ELSE Round2(acc.goals_for * 100, acc.shots)

powerplay_percentage(acc) ==
    IF acc.powerplay_opportunities = 0 THEN Returns(0)
    ELSE Round2(acc.powerplay_goals * 100, acc.powerplay_opportunities)

penalty_kill_percentage(acc) ==
    IF acc.penalty_kill_opportunities = 0 THEN Returns(10000)
    ELSE LET goals_prevented ==
                 acc.penalty_kill_opportunities - acc.penalty_kill_goals_against
         IN  Round2(goals_prevented * 100, acc.penalty_kill_opportunities)

time_on_attack_per_game(acc) ==
    IF acc.matches_played = 0 THEN Returns(0)
    ELSE Round2(acc.time_on_attack, acc.matches_played)

----------------------------------------------------------------------------
(* league_v2/models/team.py: LeagueTeam *)

\* the absent value of an Optional[str] field
None == "<None>"

\* str(x) of an Optional[str]
Str(x) == IF x = None THEN "None" ELSE x

\* the club ids of the ingested matches and of the team
ClubIds == {"100", "200"}
Seasons == {1, 2}

\* the matches add_match is called with: without clubs, with the club "100"
\* only, with the club "200" only
Matches ==
    {[match_id |-> m, clubs |-> c] :
        m \in TeamMatchIds,
        c \in UNION {[ids -> ClubStatsSet] : ids \in {{}, {"100"}, {"200"}}}}

LeagueTeamV2_add_match(match) ==
    /\ entity = "v2.LeagueTeam"
    /\ LET season_stats ==
               IF v2_team.current_season \notin DOMAIN v2_team.season_stats
                   THEN DictPut(v2_team.season_stats, v2_team.current_season,
                                NewSeasonTeamStats(v2_team.current_season))
                   ELSE v2_team.season_stats
           club_id == Str(v2_team.ea_club_id)
       IN  IF club_id \in DOMAIN match.clubs
             THEN LET club_stats == match.clubs[club_id]
                      season == season_stats[v2_team.current_season]
                  IN  /\ v2_team' =
                            [v2_team EXCEPT !.season_stats =
                                DictPut(season_stats, v2_team.current_season,
                                    SeasonTeamStats_add_match(
                                        season, match.match_id, club_stats))]
                      /\ match_log' = Append(match_log,
                            [match_id |-> match.match_id, stats |-> club_stats])
             ELSE /\ v2_team' = [v2_team EXCEPT !.season_stats = season_stats]
                  /\ UNCHANGED match_log
    /\ UNCHANGED <<team_stats, leagueTeamVars, teamRosterVars, playerVars, serviceVars>>
    /\ Called("add_match", match.match_id, "none")
    /\ UNCHANGED lifecycleVars

----------------------------------------------------------------------------
(* models/game/ea_player_stats.py: the PlayerStats records of the ingested games *)

PlayerGame(g, a, s, h, t, gv, pim, pm) ==
    [skgoals |-> g, skassists |-> a, skshots |-> s, skhits |-> h,
     sktakeaways |-> t, skgiveaways |-> gv, skpim |-> pim, skplusmin |-> pm]

\* a game with shots and giveaways, one without giveaways, one without anything
PlayerGames ==
    {PlayerGame(3, 1, 6, 10, 0, 16, 4, -2), PlayerGame(1, 2, 4, 3, 5, 0, 0, 1),
     PlayerGame(0, 0, 0, 0, 0, 0, 0, 0)}

\* match ids (Match.match_id, strings as sequences of characters): "1" and "10"
\* differ by a trailing zero, "g" is not a hexadecimal number
PlayerMatchIds == {<<"1">>, <<"1", "0">>, <<"2">>, <<"g">>}

EaIds == {"e1"}
Positions == {"CENTER"}

\* the matches add_game_stats is called with: without players, with an empty
\* club "100", with the player "e1" in the club "100"
PlayerMatches ==
    {[match_id |-> m, players |-> pl] :
        m \in PlayerMatchIds,
        pl \in {<< >>} \cup
               {[c \in {"100"} |-> r] :
                    r \in UNION {[ids -> PlayerGames] : ids \in {{}, EaIds}}}}

----------------------------------------------------------------------------
(* Python dict in insertion order (game_stats), str and uuid.UUID *)

\* k in d
OHas(d, k) == \E i \in 1..Len(d) : d[i].key = k

OKeys(d) == {d[i].key : i \in 1..Len(d)}

\* mutant: every assignment adds an entry
OPut_append(d, k, v) == Append(d, [key |-> k, value |-> v])

\* d[k] = v: a stored key keeps its place and gets the new value
OPut(d, k, v) ==
    IF OHas(d, k)
        THEN [i \in 1..Len(d) |-> IF d[i].key = k THEN [key |-> k, value |-> v] ELSE d[i]]
        ELSE Append(d, [key |-> k, value |-> v])

RECURSIVE SumValues(_, _)
\* sum(stats.<f> for stats in d.values())
SumValues(d, f) == IF d = << >> THEN 0 ELSE d[1].value[f] + SumValues(Tail(d), f)

\* length of the hexadecimal form of a UUID
UuidHexLen == 32

HexChars == {"0", "1", "2", "3", "4", "5", "6", "7", "8", "9",
             "a", "b", "c", "d", "e", "f", "A", "B", "C", "D", "E", "F"}

Lower(c) ==
    CASE c = "A" -> "a" [] c = "B" -> "b" [] c = "C" -> "c"
      [] c = "D" -> "d" [] c = "E" -> "e" [] c = "F" -> "f" [] OTHER -> c

\* match_id[:32].ljust(32, '0')
HexStr(match_id) ==
    LET cut == SubSeq(match_id, 1, IF Len(match_id) < UuidHexLen
                                       THEN Len(match_id) ELSE UuidHexLen)
    IN  cut \o [i \in 1..(UuidHexLen - Len(cut)) |-> "0"]

\* UUID(hex_str) for strings of hexadecimal digits, other letters and "-":
\* hyphens are dropped, then 32 hexadecimal digits are required; two UUIDs
\* are equal when their numbers are, so the digits are kept in lower case
UUID(hex_str) ==
    LET hex == SelectSeq(hex_str, LAMBDA c : c # "-")
    IN  IF Len(hex) # UuidHexLen THEN Raises("ValueError")
        ELSE IF \E i \in 1..Len(hex) : hex[i] \notin HexChars THEN Raises("ValueError")
        ELSE Returns([i \in 1..Len(hex) |-> Lower(hex[i])])

\* not x, for an Optional[str]
Falsy(x) == x = None \/ x = ""

----------------------------------------------------------------------------
(* league/models/stats/player_stats.py: PlayerStats                         *)
(* league/models/players/v2_player.py: LeaguePlayer                     *)

\* PlayerStats() as LeaguePlayer.stats
NewGlobalStats == [games_played |-> 0, game_stats |-> << >>, positions |-> {}]

PlayerStats_goals(st) == SumValues(st.game_stats, "skgoals")
PlayerStats_assists(st) == SumValues(st.game_stats, "skassists")
PlayerStats_points(st) == PlayerStats_goals(st) + PlayerStats_assists(st)
PlayerStats_shots(st) == SumValues(st.game_stats, "skshots")
PlayerStats_hits(st) == SumValues(st.game_stats, "skhits")
PlayerStats_takeaways(st) == SumValues(st.game_stats, "sktakeaways")
PlayerStats_giveaways(st) == SumValues(st.game_stats, "skgiveaways")
PlayerStats_penalty_minutes(st) == SumValues(st.game_stats, "skpim")
PlayerStats_plus_minus(st) == SumValues(st.game_stats, "skplusmin")

\* the last statements of add_game_stats, for a player found in the match:
\* the stats afterwards and the exception raised
LeaguePlayer_count_game(st, match_id, player_stats, position) ==
    LET counted == [st EXCEPT !.games_played = @ + 1]
        match_uuid == UUID(HexStr(match_id))
    IN  IF match_uuid.raised # "none"
          THEN [stats |-> counted, raised |-> match_uuid.raised]
          ELSE [stats |-> [counted EXCEPT
                              !.game_stats = OPut(@, match_uuid.value, player_stats),
                              !.positions = @ \cup {position}],
                raised |-> "none"]

LeaguePlayer_add_game_stats(match, club_id) ==
    /\ entity = "league.LeaguePlayer"
    /\ IF Falsy(lg_player.ea_id) \/ club_id \notin DOMAIN match.players
         THEN /\ UNCHANGED <<lg_player, game_log>>
              /\ Called("add_game_stats", match.match_id, "none")
         ELSE IF lg_player.ea_id \notin DOMAIN match.players[club_id]
         THEN /\ UNCHANGED <<lg_player, game_log>>
              /\ Called("add_game_stats", match.match_id, "none")
         ELSE LET player_stats == match.players[club_id][lg_player.ea_id]
                  r == LeaguePlayer_count_game(lg_player.stats, match.match_id,
                                               player_stats, lg_player.position)
              IN  /\ lg_player' = [lg_player EXCEPT !.stats = r.stats]
                  /\ game_log' = Append(game_log,
                        [match_id |-> match.match_id, stats |-> player_stats])
                  /\ Called("add_game_stats", match.match_id, r.raised)
    /\ UNCHANGED <<v2_player, fold_season, pool>>
    /\ UNCHANGED <<leagueTeamVars, teamRosterVars, teamStatsVars, serviceVars>>
    /\ UNCHANGED lifecycleVars

----------------------------------------------------------------------------
(* league_v2/models/player.py: SeasonStats, LeaguePlayer *)

\* SeasonStats(season=season)
NewSeasonStats(y) ==
    [season |-> y, games_played |-> 0, game_stats |-> << >>, positions |-> {}]

\* mutant: only the game stored last is counted
SeasonStats_goals_last(st) ==
    IF st.game_stats = << >> THEN 0
    ELSE st.game_stats[Len(st.game_stats)].value.skgoals

SeasonStats_goals(st) == SumValues(st.game_stats, "skgoals")
SeasonStats_assists(st) == SumValues(st.game_stats, "skassists")
SeasonStats_points(st) == SeasonStats_goals(st) + SeasonStats_assists(st)
SeasonStats_shots(st) == SumValues(st.game_stats, "skshots")
SeasonStats_hits(st) == SumValues(st.game_stats, "skhits")
SeasonStats_takeaways(st) == SumValues(st.game_stats, "sktakeaways")
SeasonStats_giveaways(st) == SumValues(st.game_stats, "skgiveaways")
SeasonStats_penalty_minutes(st) == SumValues(st.game_stats, "skpim")
SeasonStats_plus_minus(st) == SumValues(st.game_stats, "skplusmin")

SeasonStats_shooting_percentage(st) ==
    IF SeasonStats_shots(st) = 0 THEN Returns(0)
    ELSE Round2(SeasonStats_goals(st) * 100, SeasonStats_shots(st))

points_per_game(st) ==
    IF st.games_played = 0 THEN Returns(0)
    ELSE Round2(SeasonStats_points(st), st.games_played)

takeaway_giveaway_ratio(st) ==
    IF SeasonStats_giveaways(st) = 0 THEN Returns(0)
    ELSE Round2(SeasonStats_takeaways(st), SeasonStats_giveaways(st))

\* mutant: a game whose id is already stored is not counted again
LeaguePlayerV2_count_game_dedup(st, match_id, player_stats, position) ==
    LET match_uuid == UUID(HexStr(match_id))
    IN  IF match_uuid.raised = "none" /\ OHas(st.game_stats, match_uuid.value)
          THEN [stats |-> [st EXCEPT
                              !.game_stats = OPut(@, match_uuid.value, player_stats)],
                raised |-> "none"]
          ELSE LeaguePlayer_count_game(st, match_id, player_stats, position)

\* the last statements of add_game_stats, for a player found in the match:
\* the season afterwards and the exception raised
LeaguePlayerV2_count_game(st, match_id, player_stats, position) ==
    LET counted == [st EXCEPT !.games_played = @ + 1]
        match_uuid == UUID(HexStr(match_id))
    IN  IF match_uuid.raised # "none"
          THEN [stats |-> counted, raised |-> match_uuid.raised]
          ELSE [stats |-> [counted EXCEPT
                              !.game_stats = OPut(@, match_uuid.value, player_stats),
                              !.positions = @ \cup {position}],
                raised |-> "none"]

LeaguePlayerV2_add_game_stats(match, club_id) ==
    /\ entity = "v2.LeaguePlayer"
    /\ IF Falsy(v2_player.ea_id) \/ club_id \notin DOMAIN match.players
         THEN /\ UNCHANGED <<v2_player, game_log>>
              /\ Called("add_game_stats", match.match_id, "none")
         ELSE IF v2_player.ea_id \notin DOMAIN match.players[club_id]
         THEN /\ UNCHANGED <<v2_player, game_log>>
              /\ Called("add_game_stats", match.match_id, "none")
         ELSE LET player_stats == match.players[club_id][v2_player.ea_id]
                  y == v2_player.current_season
                  season_stats ==
                      IF y \notin DOMAIN v2_player.season_stats
                          THEN DictPut(v2_player.season_stats, y, NewSeasonStats(y))
                          ELSE v2_player.season_stats
                  r == LeaguePlayerV2_count_game(season_stats[y], match.match_id,
                                                 player_stats, v2_player.position)
              IN  /\ v2_player' = [v2_player EXCEPT
                        !.season_stats = DictPut(season_stats, y, r.stats)]
                  /\ game_log' = Append(game_log,
                        [match_id |-> match.match_id, stats |-> player_stats])
                  /\ Called("add_game_stats", match.match_id, r.raised)
    /\ UNCHANGED <<lg_player, fold_season, pool>>
    /\ UNCHANGED <<leagueTeamVars, teamRosterVars, teamStatsVars, serviceVars>>
    /\ UNCHANGED lifecycleVars

----------------------------------------------------------------------------
(* tests/league_v2/models/test_history.py: a SeasonStats filled game by game *)

\* ids of the games of a pool
GameIds == {"g1", "g2", "g3"}

\* the sets of games with pairwise distinct ids
Pools == UNION {[ids -> PlayerGames] : ids \in SUBSET GameIds}

\* stats.game_stats[id] = game; stats.games_played += 1; stats.positions.add(..)
\* for a game of the pool that has not been added yet
SeasonStats_add_game(id) ==
    /\ entity = "v2.SeasonStats"
    /\ id \in DOMAIN pool
    /\ ~OHas(fold_season.game_stats, id)
    /\ fold_season' = [fold_season EXCEPT
                     !.game_stats = OPut(@, id, pool[id]),
                     !.games_played = @ + 1,
                     !.positions = @ \cup {"LEFT_WING"}]
    /\ UNCHANGED <<lg_player, v2_player, game_log, pool>>
    /\ UNCHANGED <<leagueTeamVars, teamRosterVars, teamStatsVars, serviceVars>>
    /\ Called("game_stats[id] = stats", id, "none")
    /\ UNCHANGED lifecycleVars

----------------------------------------------------------------------------
(* models/game/ea_match.py: Match *)

\* the absent value (None) of an Optional object
PyNone == [none |-> TRUE]

\* the float n / d for d > 0, modelled by the quotient it is the nearest
\* double of (in lowest terms); 0.0 is Float(0, 1), 45.45 is Float(4545, 100)
Float(n, d) ==
    LET RECURSIVE Gcd(_, _)
        Gcd(a, b) == IF b = 0 THEN a ELSE Gcd(b, a % b)
        g == Gcd(IF n < 0 THEN -n ELSE n, d)
    IN  [num |-> n \div g, den |-> d \div g]

\* the ClubStats fields the match properties and the analytics read
EaClubStats(side, g, s, pa, pc, ppg, ppo, toa) ==
    [team_side |-> side, goals |-> g, shots |-> s, passes_attempted |-> pa,
     passes_completed |-> pc, powerplay_goals |-> ppg,
     powerplay_opportunities |-> ppo, time_on_attack |-> toa]

\* the AggregateStats fields the analytics read
EaAggregateStats(shots, hits, tk, gv, poss) ==
    [skshots |-> shots, skhits |-> hits, sktakeaways |-> tk,
     skgiveaways |-> gv, skpossession |-> poss]

\* Match.clubs in mapping order: no club; a home and an away club in both
\* orders; two clubs of side 0; one club of side 1; a home club under the
\* empty key; two clubs without a shot, a pass or a powerplay
EaClubMaps ==
    LET home == EaClubStats(0, 10, 22, 97, 76, 3, 4, 421)
        away == EaClubStats(1, 11, 26, 96, 69, 2, 4, 596)
        idle(side) == EaClubStats(side, 0, 0, 0, 0, 0, 0, 0)
        e(k, v) == [key |-> k, value |-> v]
    IN  {<< >>,
         <<e("100", home), e("200", away)>>,
         <<e("200", away), e("100", home)>>,
         <<e("100", home), e("200", idle(0))>>,
         <<e("100", idle(1))>>,
         <<e("", home), e("200", away)>>,
         <<e("100", idle(0)), e("200", idle(1))>>}

\* Match.aggregate: club id -> AggregateStats
EaAggregateMaps ==
    LET aggregates ==
            {EaAggregateStats(22, 10, 5, 8, 421), EaAggregateStats(27, 12, 6, 4, 596),
             EaAggregateStats(7, 0, 0, 10, 100), EaAggregateStats(0, 0, 0, 0, 0)}
    IN  UNION {[ids -> aggregates] : ids \in {{}, {"100"}, {"100", "200"}}}

\* the matches; Match.players is club id -> {player id -> PlayerStats}
EaMatches ==
    [clubs : EaClubMaps,
     players : {<< >>, [c \in {"100"} |->
                           [p \in EaIds |-> PlayerGame(1, 0, 2, 0, 0, 0, 0, 0)]]},
     aggregate : EaAggregateMaps]

\* d.get(k) on a dict in insertion order
OGet(d, k) ==
    IF OHas(d, k) THEN (d[CHOOSE i \in 1..Len(d) : d[i].key = k]).value ELSE PyNone

\* d.get(k, default)
DictGet(d, k, default) == IF k \in DOMAIN d THEN d[k] ELSE default

RECURSIVE FirstKeyWithSide_last(_, _)
\* mutant: the scan keeps going and returns the last club of that side
FirstKeyWithSide_last(clubs, side) ==
    IF clubs = << >> THEN None
    ELSE IF clubs[Len(clubs)].value.team_side = side THEN clubs[Len(clubs)].key
    ELSE FirstKeyWithSide_last(SubSeq(clubs, 1, Len(clubs) - 1), side)

RECURSIVE FirstKeyWithSide(_, _)
\* for club_id, club in self.clubs.items(): if club.team_side == side:
\* return club_id; return None
FirstKeyWithSide(clubs, side) ==
    IF clubs = << >> THEN None
    ELSE IF clubs[1].value.team_side = side THEN clubs[1].key
    ELSE FirstKeyWithSide(Tail(clubs), side)

home_club_id(m) == FirstKeyWithSide(m.clubs, 0)
away_club_id(m) == FirstKeyWithSide(m.clubs, 1)

home_club(m) ==
    LET club_id == home_club_id(m)
    IN  IF ~Falsy(club_id) THEN OGet(m.clubs, club_id) ELSE PyNone

away_club(m) ==
    LET club_id == away_club_id(m)
    IN  IF ~Falsy(club_id) THEN OGet(m.clubs, club_id) ELSE PyNone

home_players(m) ==
    LET club_id == home_club_id(m)
    IN  IF ~Falsy(club_id) THEN DictGet(m.players, club_id, << >>) ELSE << >>

away_players(m) ==
    LET club_id == away_club_id(m)
    IN  IF ~Falsy(club_id) THEN DictGet(m.players, club_id, << >>) ELSE << >>

home_aggregate(m) ==
    LET club_id == home_club_id(m)
    IN  IF ~Falsy(club_id) THEN DictGet(m.aggregate, club_id, PyNone) ELSE PyNone

away_aggregate(m) ==
    LET club_id == away_club_id(m)
    IN  IF ~Falsy(club_id) THEN DictGet(m.aggregate, club_id, PyNone) ELSE PyNone

MatchProperties ==
    {"home_club_id", "away_club_id", "home_club", "away_club",
     "home_players", "away_players", "home_aggregate", "away_aggregate"}

\* reading one of the properties of the match
Match_property(name) ==
    /\ entity = "game.Match"
    /\ ret' = Returns(CASE name = "home_club_id" -> home_club_id(ea_match)
                        [] name = "away_club_id" -> away_club_id(ea_match)
                        [] name = "home_club" -> home_club(ea_match)
                        [] name = "away_club" -> away_club(ea_match)
                        [] name = "home_players" -> home_players(ea_match)
                        [] name = "away_players" -> away_players(ea_match)
                        [] name = "home_aggregate" -> home_aggregate(ea_match)
                        [] name = "away_aggregate" -> away_aggregate(ea_match))
    /\ UNCHANGED <<ea_match, contextVars, busVars>>
    /\ UNCHANGED <<leagueTeamVars, teamRosterVars, teamStatsVars, playerVars>>
    /\ Called(name, << >>, "none")
    /\ UNCHANGED lifecycleVars

----------------------------------------------------------------------------
(* models/game/match_analytics.py: MatchAnalytics *)

\* mutant: the percentage is rounded to 2 decimals
Percent_rounded(part, whole) ==
    IF whole > 0 THEN Float(Round2(part * 100, whole).value, 100) ELSE Float(0, 1)

\* (float(part) / float(whole) * 100) if float(whole) > 0 else 0.0
Percent(part, whole) ==
    IF whole > 0 THEN Float(part * 100, whole) ELSE Float(0, 1)

get_possession_metrics(m) ==
    LET home_agg == home_aggregate(m)
        away_agg == away_aggregate(m)
        home == home_club(m)
        away == away_club(m)
    IN  IF PyNone \in {home_agg, away_agg, home, away} THEN Returns(PyNone)
        ELSE LET total_possession == home_agg.skpossession + away_agg.skpossession
             IN  Returns(
                   [possession_differential |->
                        Float(home_agg.skpossession - away_agg.skpossession, 1),
                    possession_percentage_home |->
                        IF total_possession > 0
                            THEN Float(home_agg.skpossession * 100, total_possession)
                            ELSE Float(50, 1),
                    possession_percentage_away |->
                        IF total_possession > 0
                            THEN Float(away_agg.skpossession * 100, total_possession)
                            ELSE Float(50, 1),
                    time_on_attack_differential |->
                        Float(home.time_on_attack - away.time_on_attack, 1)])

get_efficiency_metrics(m) ==
    LET home == home_club(m)
        away == away_club(m)
    IN  IF home = PyNone \/ away = PyNone THEN Returns(PyNone)
        ELSE Returns(
               [home_shooting_efficiency |-> Percent(home.goals, home.shots),
                away_shooting_efficiency |-> Percent(away.goals, away.shots),
                home_passing_efficiency |->
                    Percent(home.passes_completed, home.passes_attempted),
                away_passing_efficiency |->
                    Percent(away.passes_completed, away.passes_attempted),
                home_possession_efficiency |-> Float(home.time_on_attack * 100, 3600),
                away_possession_efficiency |-> Float(away.time_on_attack * 100, 3600)])

\* a penalty kill percentage is (1 - float(goals) / float(opportunities)) * 100
\* if float(opportunities) > 0 else 100.0, of the powerplay of the other side
get_special_teams_metrics(m) ==
    LET home == home_club(m)
        away == away_club(m)
        PenaltyKillPct(goals, opportunities) ==
            IF opportunities > 0
                THEN Float((opportunities - goals) * 100, opportunities)
                ELSE Float(100, 1)
    IN  IF home = PyNone \/ away = PyNone THEN Returns(PyNone)
        ELSE Returns(
               [home_powerplay_pct |->
                    Percent(home.powerplay_goals, home.powerplay_opportunities),
                away_powerplay_pct |->
                    Percent(away.powerplay_goals, away.powerplay_opportunities),
                home_penalty_kill_pct |->
                    PenaltyKillPct(away.powerplay_goals, away.powerplay_opportunities),
                away_penalty_kill_pct |->
                    PenaltyKillPct(home.powerplay_goals, home.powerplay_opportunities)])

\* mutant: the weights of the hits and of the takeaways are exchanged
momentum_score_swapped(shot_diff, hit_diff, takeaway_diff) ==
    Float(shot_diff * 10 + hit_diff * 7 + takeaway_diff * 5, 10)

\* shot_diff * 1.0 + hit_diff * 0.5 + takeaway_diff * 0.7
momentum_score(shot_diff, hit_diff, takeaway_diff) ==
    Float(shot_diff * 10 + hit_diff * 5 + takeaway_diff * 7, 10)

\* what the body of get_momentum_metrics returns for two aggregates:
\* home_score is max(0, momentum_score), away_score max(0, -momentum_score)
MomentumOf(home_agg, away_agg) ==
    LET shot_diff == home_agg.skshots - away_agg.skshots
        hit_diff == home_agg.skhits - away_agg.skhits
        takeaway_diff == (home_agg.sktakeaways - home_agg.skgiveaways)
                             - (away_agg.sktakeaways - away_agg.skgiveaways)
        score == momentum_score(shot_diff, hit_diff, takeaway_diff)
        Max0(x) == IF x.num > 0 THEN x ELSE Float(0, 1)
    IN  [home_score |-> Max0(score),
         away_score |-> Max0([num |-> -score.num, den |-> score.den]),
         shot_differential |-> shot_diff,
         hit_differential |-> hit_diff,
         takeaway_differential |-> takeaway_diff,
         scoring_chances_differential |-> shot_diff]

\* mutant: the aggregates are read without the check for a missing one
get_momentum_metrics_unchecked(m) ==
    LET home_agg == home_aggregate(m)
        away_agg == away_aggregate(m)
    IN  IF home_agg = PyNone \/ away_agg = PyNone THEN Raises("AttributeError")
        ELSE Returns(MomentumOf(home_agg, away_agg))

get_momentum_metrics(m) ==
    LET home_agg == home_aggregate(m)
        away_agg == away_aggregate(m)
    IN  IF home_agg = PyNone \/ away_agg = PyNone THEN Returns(PyNone)
        ELSE Returns(MomentumOf(home_agg, away_agg))

MetricGroups == {"get_possession_metrics", "get_efficiency_metrics",
                 "get_special_teams_metrics", "get_momentum_metrics"}

\* MatchAnalytics(match).get_<group>_metrics()
MatchAnalytics_get_metrics(name) ==
    /\ entity = "game.Match"
    /\ LET r == CASE name = "get_possession_metrics" -> get_possession_metrics(ea_match)
                  [] name = "get_efficiency_metrics" -> get_efficiency_metrics(ea_match)
                  [] name = "get_special_teams_metrics" -> get_special_teams_metrics(ea_match)
                  [] name = "get_momentum_metrics" -> get_momentum_metrics(ea_match)
       IN  /\ ret' = r
           /\ Called(name, << >>, r.raised)
    /\ UNCHANGED <<ea_match, contextVars, busVars>>
    /\ UNCHANGED <<leagueTeamVars, teamRosterVars, teamStatsVars, playerVars>>
    /\ UNCHANGED lifecycleVars

----------------------------------------------------------------------------
(* models/game/base.py, player.py, club.py, ea_player_stats.py: parsing the *)
(* raw records.  A raw value is a string (a sequence of characters); a      *)
(* parsed value is None, a str, an int or a float.                          *)

\* a value of type t ("str", "int" or "float")
Val(t, v) == [t |-> t, v |-> v]

\* the sentinel of the upstream API
Dashes == Val("str", <<"-", "-">>)

\* the raw values of a field: the sentinel, an integer, a decimal number, text
RawValues == {Dashes, Val("str", <<"3">>), Val("str", <<"2", ".", "5">>), Val("str", <<"C">>)}

\* a non-empty string of decimal digits
IsDigits(s) ==
    /\ Len(s) > 0
    /\ \A i \in 1..Len(s) : s[i] \in {"0", "1", "2", "3", "4", "5", "6", "7", "8", "9"}

RECURSIVE DigitsValue(_)
\* the number a string of decimal digits stands for
DigitsValue(s) ==
    LET DigitValue(c) ==
            CASE c = "0" -> 0 [] c = "1" -> 1 [] c = "2" -> 2 [] c = "3" -> 3
              [] c = "4" -> 4 [] c = "5" -> 5 [] c = "6" -> 6 [] c = "7" -> 7
              [] c = "8" -> 8 [] c = "9" -> 9
    IN  IF s = << >> THEN 0
        ELSE 10 * DigitsValue(SubSeq(s, 1, Len(s) - 1)) + DigitValue(s[Len(s)])

\* int(s) of a string: an optional sign and decimal digits, else ValueError
PyInt(s) ==
    IF IsDigits(s) THEN Returns(Val("int", DigitsValue(s)))
    ELSE IF Len(s) > 1 /\ s[1] = "-" /\ IsDigits(Tail(s))
        THEN Returns(Val("int", -DigitsValue(Tail(s))))
    ELSE Raises("ValueError")

\* float(s) of a string: digits with an optional fraction, else ValueError
PyFloat(s) ==
    IF IsDigits(s) THEN Returns(Val("float", Float(DigitsValue(s), 1)))
    ELSE IF \E i \in 2..(Len(s) - 1) :
                /\ s[i] = "."
                /\ IsDigits(SubSeq(s, 1, i - 1))
                /\ IsDigits(SubSeq(s, i + 1, Len(s)))
        THEN LET RECURSIVE Pow10(_)
                 Pow10(n) == IF n = 0 THEN 1 ELSE 10 * Pow10(n - 1)
                 i == CHOOSE j \in 2..(Len(s) - 1) : s[j] = "."
                 frac == SubSeq(s, i + 1, Len(s))
             IN  Returns(Val("float", Float(
                     DigitsValue(SubSeq(s, 1, i - 1)) * Pow10(Len(frac))
                         + DigitsValue(frac),
                     Pow10(Len(frac)))))
    ELSE Raises("ValueError")

\* a declared field: its key in the payload, its type, Optional or required
Field(name, type, optional) == [name |-> name, type |-> type, optional |-> optional]

\* NumericValidatorBase.handle_dashes: every top-level "--" becomes None
handle_dashes(data) ==
    [k \in DOMAIN data |-> IF data[k] = Dashes THEN PyNone ELSE data[k]]

\* pydantic's validation of one field of a NumericValidatorBase model
\* (str_to_lower; strings are parsed into numbers): None is accepted by an
\* Optional field only, a missing key by a field with a default only
ValidateField(field, data) ==
    IF field.name \notin DOMAIN data
        THEN IF field.optional THEN Returns(PyNone) ELSE Raises("missing")
    ELSE LET v == data[field.name]
         IN  IF v = PyNone
                 THEN IF field.optional THEN Returns(PyNone)
                      ELSE Raises("none_not_allowed")
             ELSE CASE field.type = "str" ->
                          Returns(Val("str", [i \in 1..Len(v.v) |-> Lower(v.v[i])]))
                    [] field.type = "int" ->
                          IF PyInt(v.v).raised = "none" THEN PyInt(v.v)
                          ELSE Raises("int_parsing")
                    [] field.type = "float" ->
                          IF PyFloat(v.v).raised = "none" THEN PyFloat(v.v)
                          ELSE Raises("float_parsing")

\* Model.model_validate(data) of a NumericValidatorBase model with these
\* fields: the record of the parsed fields, or a ValidationError
ValidateModel(fields, data) ==
    LET clean == handle_dashes(data)
        names == {f.name : f \in fields}
        spec(n) == CHOOSE f \in fields : f.name = n
    IN  IF \E f \in fields : ValidateField(f, clean).raised # "none"
            THEN Raises("ValidationError")
            ELSE Returns([n \in names |-> ValidateField(spec(n), clean).value])

\* models/game/player.py: PlayerStats, by the keys of the payload (position,
\* sk_goals, sk_faceoff_pct, rank_points)
PlayerStatsFields ==
    {Field("position", "str", FALSE), Field("skgoals", "int", FALSE),
     Field("skfopct", "float", FALSE), Field("rankpoints", "int", TRUE)}

PlayerStats_model_validate(data) == ValidateModel(PlayerStatsFields, data)

\* the field validators of ea_player_stats.PlayerStats:
\* int(v) if isinstance(v, str) else v, and the same with float
convert_to_int(v) == PyInt(v.v)
convert_to_float(v) == PyFloat(v.v)

\* models/game/ea_player_stats.py: PlayerStats (a plain BaseModel, without
\* handle_dashes): position is a str, skgoals goes through convert_to_int and
\* skfopct through convert_to_float; an exception of a validator is a
\* ValidationError
EaPlayerStats_model_validate(data) ==
    IF \/ {"position", "skgoals", "skfopct"} \ DOMAIN data # {}
       \/ convert_to_int(data.skgoals).raised # "none"
       \/ convert_to_float(data.skfopct).raised # "none"
        THEN Raises("ValidationError")
        ELSE Returns([position |-> data.position,
                      skgoals |-> convert_to_int(data.skgoals).value,
                      skfopct |-> convert_to_float(data.skfopct).value])

\* the raw player payloads
PlayerPayloads ==
    [position : RawValues, skgoals : RawValues, skfopct : RawValues]
        \cup [position : RawValues, skgoals : RawValues, skfopct : RawValues,
              rankpoints : {Dashes, Val("str", <<"3">>)}]

RecordClasses == {"player.PlayerStats", "ea_player_stats.PlayerStats"}

\* <class>.model_validate(data)
PlayerStats_parse(class, data) ==
    /\ entity = "game.PlayerStats"
    /\ LET r == IF class = "player.PlayerStats"
                    THEN PlayerStats_model_validate(data)
                    ELSE EaPlayerStats_model_validate(data)
       IN  /\ ret' = r
           /\ Called(class, data, r.raised)
    /\ UNCHANGED <<ea_match, contextVars, busVars>>
    /\ UNCHANGED <<leagueTeamVars, teamRosterVars, teamStatsVars, playerVars>>
    /\ UNCHANGED lifecycleVars

----------------------------------------------------------------------------
(* league_v2/services/game_stats_service.py: parse_game_stats *)

\* number of matches of a batch
MaxBatch == 2

\* models/game/club.py: Match.model_validate(match_data), by the keys of the
\* payload: the fields match_id and timestamp of the match and every
\* PlayerStats of match_data["players"]
Match_model_validate(match_data) ==
    LET fields == {Field("matchId", "str", FALSE), Field("timestamp", "int", FALSE)}
        top == ValidateModel(fields, match_data)
        players == match_data.players
        parsed(c, p) == PlayerStats_model_validate(players[c][p])
    IN  IF \/ top.raised # "none"
           \/ \E c \in DOMAIN players : \E p \in DOMAIN players[c] :
                  parsed(c, p).raised # "none"
            THEN Raises("ValidationError")
            ELSE Returns([match_id |-> top.value.matchId,
                          timestamp |-> top.value.timestamp,
                          players |-> [c \in DOMAIN players |->
                              [p \in DOMAIN players[c] |-> parsed(c, p).value]]])

\* the raw matches: with and without a match id, with a timestamp that is a
\* number or not, with a player whose goals are a number or the sentinel
MatchPayloads ==
    LET player(goals) == [position |-> Val("str", <<"C">>), skgoals |-> goals,
                          skfopct |-> Val("str", <<"2", ".", "5">>)]
        players(goals) == [c \in {"100"} |-> [p \in EaIds |-> player(goals)]]
        three == Val("str", <<"3">>)
        payload(m, t, g) == [matchId |-> Val("str", <<m>>), timestamp |-> t,
                             players |-> players(g)]
    IN  {payload("1", three, three), payload("2", three, three),
         payload("1", Val("str", <<"C">>), three), payload("1", three, Dashes),
         [timestamp |-> three, players |-> players(three)]}

Batches == UNION {[1..n -> MatchPayloads] : n \in 0..MaxBatch}

RECURSIVE parse_game_stats_break(_)
\* mutant: the first match that fails ends the loop
parse_game_stats_break(json_data) ==
    IF json_data = << >> THEN << >>
    ELSE LET r == Match_model_validate(Head(json_data))
         IN  IF r.raised = "none"
                 THEN <<r.value>> \o parse_game_stats_break(Tail(json_data))
                 ELSE << >>

RECURSIVE parse_game_stats(_)
\* for match_data in json_data: try: matches.append(Match.model_validate(
\* match_data)) except Exception: logging.warning(...); continue
parse_game_stats(json_data) ==
    IF json_data = << >> THEN << >>
    ELSE LET r == Match_model_validate(Head(json_data))
         IN  (IF r.raised = "none" THEN <<r.value>> ELSE << >>)
                 \o parse_game_stats(Tail(json_data))

parse_game_stats_call(json_data) ==
    /\ entity = "game_stats_service"
    /\ ret' = Returns(parse_game_stats(json_data))
    /\ Called("parse_game_stats", json_data, "none")
    /\ UNCHANGED <<ea_match, contextVars, busVars>>
    /\ UNCHANGED <<leagueTeamVars, teamRosterVars, teamStatsVars, playerVars>>
    /\ UNCHANGED lifecycleVars

----------------------------------------------------------------------------
(* league/events.py: EventBus *)

\* the members of LeagueEventType
LeagueEventType ==
    {"TEAM_REGISTERED", "TEAM_UPDATED", "PLAYER_REGISTERED", "PLAYER_SIGNED",
     "PLAYER_RELEASED", "PLAYER_STATUS_CHANGED", "TRADE_PROPOSED", "TRADE_ACCEPTED",
     "TRADE_REJECTED", "TRADE_EXECUTED", "ROSTER_UPDATED", "ROSTER_VALIDATED",
     "SEASON_STARTED", "SEASON_ENDED", "TRADE_DEADLINE_PASSED"}

\* a LeagueEvent: its type and the team, player or trade it is about
Event(type, subject) == [event_type |-> type, subject |-> subject]

\* the handlers that are subscribed: h1 returns; h2 raises ValueError (an
\* Exception); h3 calls bus.unsubscribe(event.event_type, h3), and h4 calls
\* bus.subscribe(event.event_type, h1), both on the bus that calls them
Handlers == {"h1", "h2", "h3", "h4"}

\* the event types the handlers are subscribed to and events are published with
BusEventTypes == {"TEAM_REGISTERED", "TRADE_PROPOSED"}

\* if handler in self._handlers[event_type]: ....remove(handler)
Unsubscribe(hs, event_type, handler) ==
    IF InList(hs[event_type], handler)
        THEN [hs EXCEPT ![event_type] = ListRemove(@, handler)]
        ELSE hs

\* handler(event): the lists of handlers of the bus after the call
CallHandler(hs, handler, event) ==
    CASE handler = "h3" -> Unsubscribe(hs, event.event_type, "h3")
      [] handler = "h4" -> [hs EXCEPT ![event.event_type] = Append(@, "h1")]
      [] OTHER -> hs

RECURSIVE Deliver_unguarded(_, _, _)
\* mutant: the call of the handler is not inside try/except
Deliver_unguarded(hs, event, i) ==
    IF i > Len(hs[event.event_type])
        THEN [handlers |-> hs, invoked |-> << >>, raised |-> "none"]
    ELSE LET handler == hs[event.event_type][i]
             call == [handler |-> handler, event |-> event]
             rest == Deliver_unguarded(CallHandler(hs, handler, event), event, i + 1)
         IN  IF handler = "h2"
                 THEN [handlers |-> hs, invoked |-> <<call>>, raised |-> "ValueError"]
                 ELSE [handlers |-> rest.handlers, invoked |-> <<call>> \o rest.invoked,
                       raised |-> rest.raised]

RECURSIVE Deliver(_, _, _)
\* for handler in self._handlers[event.event_type]:
\*     try: handler(event) except Exception: print(...)
\* from position i of the list on. The iterator of a Python list keeps an
\* index into the list itself: each step reads the element at the index from
\* the list as it is then, and stops when the index has reached its length.
\* Gives the lists of handlers after the loop, the calls made, in order, and
\* the exception that leaves the loop.
Deliver(hs, event, i) ==
    IF i > Len(hs[event.event_type])
        THEN [handlers |-> hs, invoked |-> << >>, raised |-> "none"]
    ELSE LET handler == hs[event.event_type][i]
             call == [handler |-> handler, event |-> event]
             rest == Deliver(CallHandler(hs, handler, event), event, i + 1)
         IN  [handlers |-> rest.handlers, invoked |-> <<call>> \o rest.invoked,
              raised |-> rest.raised]

EventBus_subscribe(event_type, handler) ==
    /\ entity = "EventBus"
    /\ handlers' = [handlers EXCEPT ![event_type] = Append(@, handler)]
    /\ UNCHANGED <<received, gameVars, contextVars>>
    /\ UNCHANGED <<leagueTeamVars, teamRosterVars, teamStatsVars, playerVars>>
    /\ Called("subscribe", <<event_type, handler>>, "none")
    /\ UNCHANGED lifecycleVars

EventBus_unsubscribe(event_type, handler) ==
    /\ entity = "EventBus"
    /\ handlers' = Unsubscribe(handlers, event_type, handler)
    /\ UNCHANGED <<received, gameVars, contextVars>>
    /\ UNCHANGED <<leagueTeamVars, teamRosterVars, teamStatsVars, playerVars>>
    /\ Called("unsubscribe", <<event_type, handler>>, "none")
    /\ UNCHANGED lifecycleVars

EventBus_publish(event) ==
    /\ entity = "EventBus"
    /\ LET d == Deliver(handlers, event, 1)
       IN  /\ received' = received \o d.invoked
           /\ handlers' = d.handlers
           /\ Called("publish", event, d.raised)
    /\ UNCHANGED <<gameVars, contextVars>>
    /\ UNCHANGED <<leagueTeamVars, teamRosterVars, teamStatsVars, playerVars>>
    /\ UNCHANGED lifecycleVars

EventBus_clear ==
    /\ entity = "EventBus"
    /\ handlers' = [t \in LeagueEventType |-> << >>]
    /\ UNCHANGED <<received, gameVars, contextVars>>
    /\ UNCHANGED <<leagueTeamVars, teamRosterVars, teamStatsVars, playerVars>>
    /\ Called("clear", << >>, "none")
    /\ UNCHANGED lifecycleVars

----------------------------------------------------------------------------
(* league/models/player.py: LeaguePlayer.  A contract is None, "active"     *)
(* (start_date <= datetime.now() <= end_date) or "expired".  Every method   *)
(* records in self.history and then builds the instance it returns with     *)
(* history=self.history: an operator gives the receiver as it is after the  *)
(* call (self) and what the call returns (ret).                             *)

\* PlayerHistory.add_transaction
add_transaction(history, type, from_team_id, to_team_id) ==
    [history EXCEPT !.transactions =
        Append(@, [type |-> type, from_team_id |-> from_team_id,
                   to_team_id |-> to_team_id])]

\* PlayerHistory.end_current_contract: current_team_id is to_team_id of the
\* transaction with the latest timestamp, the last one that was added
end_current_contract(history, reason) ==
    LET n == Len(history.contracts)
        ended == IF n = 0 THEN history
                 ELSE [history EXCEPT !.contracts[n].actual_end_date = "set"]
        current_team_id ==
            IF history.transactions = << >> THEN None
            ELSE history.transactions[Len(history.transactions)].to_team_id
    IN  add_transaction(ended, reason, current_team_id, None)

\* LeaguePlayer.is_signed
is_signed(player) == player.contract = "active"

\* LeaguePlayer.sign_with_team: start_date is None (now) or a date so long
\* ago that the contract has ended ("past")
sign_with_team(player, team_id, start_date) ==
    IF is_signed(player) THEN [self |-> player, ret |-> Raises("ValueError")]
    ELSE LET contract == IF start_date = None THEN "active" ELSE "expired"
             history ==
                 add_transaction(
                     [player.history EXCEPT !.contracts =
                         Append(@, [team_id |-> team_id, actual_end_date |-> None])],
                     "FREE_AGENT_SIGNING", None, team_id)
         IN  [self |-> [player EXCEPT !.history = history],
              ret |-> Returns([player EXCEPT !.contract = contract,
                                             !.team_id = team_id,
                                             !.history = history])]

\* mutant: the transaction is not recorded
trade_to_team_unrecorded(player, new_team_id) ==
    IF player.team_id = None THEN [self |-> player, ret |-> Raises("ValueError")]
    ELSE [self |-> player, ret |-> Returns([player EXCEPT !.team_id = new_team_id])]

\* LeaguePlayer.trade_to_team
trade_to_team(player, new_team_id) ==
    IF player.team_id = None THEN [self |-> player, ret |-> Raises("ValueError")]
    ELSE LET history ==
                 add_transaction(player.history, "TRADE", player.team_id, new_team_id)
         IN  [self |-> [player EXCEPT !.history = history],
              ret |-> Returns([player EXCEPT !.team_id = new_team_id,
                                             !.history = history])]

\* LeaguePlayer.release_from_team
release_from_team(player) ==
    IF player.team_id = None THEN [self |-> player, ret |-> Raises("ValueError")]
    ELSE LET history == end_current_contract(player.history, "RELEASE")
         IN  [self |-> [player EXCEPT !.history = history],
              ret |-> Returns([player EXCEPT !.contract = None, !.team_id = None,
                                             !.history = history])]

\* mutant: a contract that is still active expires as well
expire_contract_unchecked(player) ==
    IF player.contract = None THEN [self |-> player, ret |-> Raises("ValueError")]
    ELSE LET history == end_current_contract(player.history, "CONTRACT_EXPIRY")
         IN  [self |-> [player EXCEPT !.history = history],
              ret |-> Returns([player EXCEPT !.contract = None, !.team_id = None,
                                             !.history = history])]

\* LeaguePlayer.expire_contract
expire_contract(player) ==
    IF player.contract = None THEN [self |-> player, ret |-> Raises("ValueError")]
    ELSE IF player.contract = "active"
        THEN [self |-> player, ret |-> Raises("ValueError")]
    ELSE LET history == end_current_contract(player.history, "CONTRACT_EXPIRY")
         IN  [self |-> [player EXCEPT !.history = history],
              ret |-> Returns([player EXCEPT !.contract = None, !.team_id = None,
                                             !.history = history])]

\* LeaguePlayer(player_id=id, ..., team_id=team_id, contract=contract): the
\* history is PlayerHistory(player_id=id), without transactions and contracts
NewPlayer(id, team_id, contract) ==
    [player_id |-> id, team_id |-> team_id, contract |-> contract,
     history |-> [transactions |-> << >>, contracts |-> << >>]]

\* A method is called on the player itself (target = "self") or on the
\* instance the last call returned (target = "returned"); model_player is
\* then the receiver of the call as the call leaves it.
LeaguePlayer_sign_with_team(target, team_id, start_date) ==
    /\ entity = "models.LeaguePlayer"
    /\ target = "returned" => ret.raised = "none" /\ ret.value # PyNone
    /\ LET receiver == IF target = "self" THEN model_player ELSE ret.value
           r == sign_with_team(receiver, team_id, start_date)
       IN  /\ model_player' = r.self
           /\ ret' = r.ret
           /\ Called("sign_with_team", <<receiver, team_id, start_date>>, r.ret.raised)
    /\ UNCHANGED <<ea_match, contextVars, busVars, package>>
    /\ UNCHANGED <<leagueTeamVars, teamRosterVars, teamStatsVars, playerVars>>

LeaguePlayer_trade_to_team(target, new_team_id) ==
    /\ entity = "models.LeaguePlayer"
    /\ target = "returned" => ret.raised = "none" /\ ret.value # PyNone
    /\ LET receiver == IF target = "self" THEN model_player ELSE ret.value
           r == trade_to_team(receiver, new_team_id)
       IN  /\ model_player' = r.self
           /\ ret' = r.ret
           /\ Called("trade_to_team", <<receiver, new_team_id>>, r.ret.raised)
    /\ UNCHANGED <<ea_match, contextVars, busVars, package>>
    /\ UNCHANGED <<leagueTeamVars, teamRosterVars, teamStatsVars, playerVars>>

LeaguePlayer_release_from_team(target) ==
    /\ entity = "models.LeaguePlayer"
    /\ target = "returned" => ret.raised = "none" /\ ret.value # PyNone
    /\ LET receiver == IF target = "self" THEN model_player ELSE ret.value
           r == release_from_team(receiver)
       IN  /\ model_player' = r.self
           /\ ret' = r.ret
           /\ Called("release_from_team", <<receiver>>, r.ret.raised)
    /\ UNCHANGED <<ea_match, contextVars, busVars, package>>
    /\ UNCHANGED <<leagueTeamVars, teamRosterVars, teamStatsVars, playerVars>>

LeaguePlayer_expire_contract(target) ==
    /\ entity = "models.LeaguePlayer"
    /\ target = "returned" => ret.raised = "none" /\ ret.value # PyNone
    /\ LET receiver == IF target = "self" THEN model_player ELSE ret.value
           r == expire_contract(receiver)
       IN  /\ model_player' = r.self
           /\ ret' = r.ret
           /\ Called("expire_contract", <<receiver>>, r.ret.raised)
    /\ UNCHANGED <<ea_match, contextVars, busVars, package>>
    /\ UNCHANGED <<leagueTeamVars, teamRosterVars, teamStatsVars, playerVars>>

----------------------------------------------------------------------------
(* league/models/trade.py: TradePackage *)

\* the players that are registered and traded: P1 before and after signing
\* with T1, P2 signed with T2
CtxPlayers ==
    {NewPlayer("P1", None, None), NewPlayer("P1", "T1", "active"),
     NewPlayer("P2", "T2", "active")}

TradeParticipant(team, outgoing, incoming) ==
    [team_id |-> team, outgoing_players |-> outgoing, incoming_players |-> incoming]

create_two_team_trade(team1_id, team1_players, team2_id, team2_players) ==
    [participants |->
        <<TradeParticipant(team1_id, team1_players, team2_players),
          TradeParticipant(team2_id, team2_players, team1_players)>>]

\* a swap of P1 and P2, P1 given away for nothing, and a trade of the
\* unsigned P1, which does not validate
Trades ==
    {create_two_team_trade("T1", <<NewPlayer("P1", "T1", "active")>>,
                           "T2", <<NewPlayer("P2", "T2", "active")>>),
     create_two_team_trade("T1", <<NewPlayer("P1", "T1", "active")>>, "T2", << >>),
     create_two_team_trade("T1", <<NewPlayer("P1", None, None)>>, "T2", << >>)}

\* the packages execute_trade is called on. Their players have signed with
\* their team (Pn with Tn), but for U1, who was built with team_id T1 and no
\* contract: a swap, a three-team cycle, a player nobody lists as incoming, a
\* player two teams list as incoming, the same player sent by two teams, a
\* player sent by a team that is not his, and a player without contract
TradePackages ==
    LET Signed(n, t) == sign_with_team(NewPlayer(n, None, None), t, None).ret.value
        P1 == Signed("P1", "T1")
        P2 == Signed("P2", "T2")
        P3 == Signed("P3", "T3")
        U1 == NewPlayer("U1", "T1", None)
    IN  {create_two_team_trade("T1", <<P1>>, "T2", <<P2>>),
         [participants |-> <<TradeParticipant("T1", <<P1>>, <<P2>>),
                             TradeParticipant("T2", <<P2>>, <<P3>>),
                             TradeParticipant("T3", <<P3>>, <<P1>>)>>],
         [participants |-> <<TradeParticipant("T1", <<P1>>, << >>),
                             TradeParticipant("T2", <<P2>>, << >>)>>],
         [participants |-> <<TradeParticipant("T1", <<P1>>, << >>),
                             TradeParticipant("T2", << >>, <<P1>>),
                             TradeParticipant("T3", << >>, <<P1>>)>>],
         create_two_team_trade("T1", <<P1>>, "T2", <<P1>>),
         create_two_team_trade("T1", <<P2>>, "T2", << >>),
         create_two_team_trade("T1", <<P1, U1>>, "T2", <<P2>>)}

RECURSIVE Concat(_)
\* the lists of a list, joined
Concat(lists) == IF lists = << >> THEN << >> ELSE Head(lists) \o Concat(Tail(lists))

\* mutant: a player need not be under contract
validate_players_any_contract(participant) ==
    IF \E i \in 1..Len(participant.outgoing_players) :
           participant.outgoing_players[i].team_id # participant.team_id
        THEN "ValueError" ELSE "none"

\* TradeParticipant.validate_players: the exception it raises, or "none"
validate_players(participant) ==
    IF \E i \in 1..Len(participant.outgoing_players) :
           \/ participant.outgoing_players[i].team_id # participant.team_id
           \/ ~is_signed(participant.outgoing_players[i])
        THEN "ValueError" ELSE "none"

\* TradePackage.validate_trade: the exception it raises, or "none"
validate_trade(trade) ==
    LET ps == trade.participants
        outgoing == Concat([i \in 1..Len(ps) |-> ps[i].outgoing_players])
        player_ids == [i \in 1..Len(outgoing) |-> outgoing[i].player_id]
    IN  IF Len(player_ids) # Cardinality({player_ids[i] : i \in 1..Len(player_ids)})
            THEN "ValueError"
        ELSE IF \E i \in 1..Len(ps) : validate_players(ps[i]) # "none"
            THEN "ValueError"
        ELSE "none"

\* TradePackage.execute_trade: the package as the call leaves it (trade) and
\* what the call returns (ret), the updated players, team by team in the
\* order of the participants. A player object that is traded is the same
\* object in every list of the package that holds it.
TradePackage_execute_trade(trade) ==
    IF validate_trade(trade) # "none" THEN [trade |-> trade, ret |-> Raises("ValueError")]
    ELSE LET ps == trade.participants
             receiver(i, player) ==
                 {j \in 1..Len(ps) : /\ ps[j].team_id # ps[i].team_id
                                     /\ InList(ps[j].incoming_players, player)}
             first(S) == CHOOSE j \in S : \A k \in S : j <= k
             moves == Concat([i \in 1..Len(ps) |->
                          Concat([k \in 1..Len(ps[i].outgoing_players) |->
                              LET player == ps[i].outgoing_players[k]
                              IN  IF receiver(i, player) = {} THEN << >>
                                  ELSE <<[to |-> ps[first(receiver(i, player))].team_id,
                                          player |-> player]>>])])
             received_by(t) == SelectSeq(moves, LAMBDA mv : mv.to = t)
             after(list) ==
                 [k \in 1..Len(list) |->
                     IF \E m \in 1..Len(moves) : moves[m].player = list[k]
                         THEN LET m == CHOOSE m \in 1..Len(moves) : moves[m].player = list[k]
                              IN  trade_to_team(list[k], moves[m].to).self
                         ELSE list[k]]
         IN  [trade |->
                  [participants |->
                      [i \in 1..Len(ps) |->
                          [ps[i] EXCEPT !.outgoing_players = after(@),
                                        !.incoming_players = after(@)]]],
              ret |->
                  Returns(Concat([i \in 1..Len(ps) |->
                      IF \E j \in 1..(i - 1) : ps[j].team_id = ps[i].team_id THEN << >>
                      ELSE [k \in 1..Len(received_by(ps[i].team_id)) |->
                               trade_to_team(received_by(ps[i].team_id)[k].player,
                                             ps[i].team_id).ret.value]]))]

\* trade.execute_trade() on the package
TradePackage_execute_trade_call ==
    /\ entity = "TradePackage"
    /\ LET r == TradePackage_execute_trade(package)
       IN  /\ package' = r.trade
           /\ ret' = r.ret
           /\ Called("TradePackage.execute_trade", package, r.ret.raised)
    /\ UNCHANGED <<ea_match, contextVars, busVars, model_player>>
    /\ UNCHANGED <<leagueTeamVars, teamRosterVars, teamStatsVars, playerVars>>

----------------------------------------------------------------------------
(* models/game/team_stats.py: TeamStats *)

\* the largest TeamStats.penalty_minutes
MaxPenaltyMinutes == 12

RECURSIVE calculate_major_minor_penalties(_, _)
\* TeamStats._calculate_major_minor_penalties with P = self.penalty_minutes,
\* from the test of its while loop on, for the n_major_pens reached
calculate_major_minor_penalties(P, n_major_pens) ==
    IF (P - (n_major_pens * 5)) % 2 # 0
        THEN calculate_major_minor_penalties(P, n_major_pens + 1)
        ELSE LET remaining_mins == P - (n_major_pens * 5)
             IN  [major_penalties |-> n_major_pens,
                  minor_penalties |-> remaining_mins \div 2]

\* TeamStats._set_major_minor_penalties of a TeamStats with these minutes
TeamStats_set_major_minor_penalties(penalty_minutes) ==
    /\ entity = "game.TeamStats"
    /\ ret' = Returns(calculate_major_minor_penalties(penalty_minutes, 0))
    /\ Called("_set_major_minor_penalties", penalty_minutes, "none")
    /\ UNCHANGED <<ea_match, contextVars, busVars, lifecycleVars>>
    /\ UNCHANGED <<leagueTeamVars, teamRosterVars, teamStatsVars, playerVars>>

----------------------------------------------------------------------------
(* league/context.py: LeagueContext.  context.trade_deadline is None, or a  *)
(* datetime that datetime.now() has passed ("past") or not ("future").      *)

\* LeagueContext(season=2024): LeagueState and the empty registries
NewContext ==
    [season |-> 2024, trade_deadline |-> None, is_trading_allowed |-> TRUE,
     teams |-> << >>, players |-> << >>, pending_trades |-> << >>]


\* event_bus.publish(event) on the bus of the context
ContextPublish(event) ==
    /\ published' = Append(published, event)
    /\ LET d == Deliver(handlers, event, 1)
       IN  /\ received' = received \o d.invoked
           /\ handlers' = d.handlers

\* mutant: an id is never taken as registered
AlreadyRegistered_never(registry, id) == FALSE

\* team.team_id in self._teams, player.player_id in self._players
AlreadyRegistered(registry, id) == id \in DOMAIN registry

LeagueContext_register_team(team) ==
    /\ entity = "LeagueContext"
    /\ IF AlreadyRegistered(context.teams, team.team_id)
         THEN /\ UNCHANGED <<context, published, busVars>>
              /\ ret' = Raises("ValueError")
              /\ Called("register_team", team, "ValueError")
         ELSE /\ context' = [context EXCEPT !.teams = DictPut(@, team.team_id, team)]
              /\ ContextPublish(Event("TEAM_REGISTERED", team.team_id))
              /\ ret' = Returns(team)
              /\ Called("register_team", team, "none")
    /\ UNCHANGED ea_match
    /\ UNCHANGED <<leagueTeamVars, teamRosterVars, teamStatsVars, playerVars>>
    /\ UNCHANGED lifecycleVars

LeagueContext_register_player(player) ==
    /\ entity = "LeagueContext"
    /\ IF AlreadyRegistered(context.players, player.player_id)
         THEN /\ UNCHANGED <<context, published, busVars>>
              /\ ret' = Raises("ValueError")
              /\ Called("register_player", player, "ValueError")
         ELSE /\ context' = [context EXCEPT !.players = DictPut(@, player.player_id, player)]
              /\ ContextPublish(Event("PLAYER_REGISTERED", player.player_id))
              /\ ret' = Returns(player)
              /\ Called("register_player", player, "none")
    /\ UNCHANGED ea_match
    /\ UNCHANGED <<leagueTeamVars, teamRosterVars, teamStatsVars, playerVars>>
    /\ UNCHANGED lifecycleVars

LeagueContext_propose_trade(trade) ==
    /\ entity = "LeagueContext"
    /\ IF \/ ~context.is_trading_allowed
          \/ (context.trade_deadline # None /\ context.trade_deadline = "past")
          \/ validate_trade(trade) # "none"
         THEN /\ UNCHANGED <<context, published, busVars>>
              /\ ret' = Raises("ValueError")
              /\ Called("propose_trade", trade, "ValueError")
         ELSE /\ context' = [context EXCEPT !.pending_trades = Append(@, trade)]
              /\ ContextPublish(Event("TRADE_PROPOSED", trade))
              /\ ret' = Returns(PyNone)
              /\ Called("propose_trade", trade, "none")
    /\ UNCHANGED ea_match
    /\ UNCHANGED <<leagueTeamVars, teamRosterVars, teamStatsVars, playerVars>>
    /\ UNCHANGED lifecycleVars

RECURSIVE PutPlayers(_, _)
\* for player in updated_players: self._players[player.player_id] = player
PutPlayers(registry, updated_players) ==
    IF updated_players = << >> THEN registry
    ELSE PutPlayers(DictPut(registry, Head(updated_players).player_id,
                            Head(updated_players)),
                    Tail(updated_players))

LeagueContext_execute_trade(trade) ==
    /\ entity = "LeagueContext"
    /\ LET r == TradePackage_execute_trade(trade).ret
       IN  IF ~InList(context.pending_trades, trade) \/ r.raised # "none"
             THEN /\ UNCHANGED <<context, published, busVars>>
                  /\ ret' = Raises("ValueError")
                  /\ Called("execute_trade", trade, "ValueError")
             ELSE /\ context' = [context EXCEPT
                        !.players = PutPlayers(@, r.value),
                        !.pending_trades = ListRemove(@, trade)]
                  /\ ContextPublish(Event("TRADE_EXECUTED", trade))
                  /\ ret' = r
                  /\ Called("execute_trade", trade, "none")
    /\ UNCHANGED ea_match
    /\ UNCHANGED <<leagueTeamVars, teamRosterVars, teamStatsVars, playerVars>>
    /\ UNCHANGED lifecycleVars

LeagueContext_reject_trade(trade) ==
    /\ entity = "LeagueContext"
    /\ IF ~InList(context.pending_trades, trade)
         THEN /\ UNCHANGED <<context, published, busVars>>
              /\ ret' = Raises("ValueError")
              /\ Called("reject_trade", trade, "ValueError")
         ELSE /\ context' = [context EXCEPT !.pending_trades = ListRemove(@, trade)]
              /\ ContextPublish(Event("TRADE_REJECTED", trade))
              /\ ret' = Returns(PyNone)
              /\ Called("reject_trade", trade, "none")
    /\ UNCHANGED ea_match
    /\ UNCHANGED <<leagueTeamVars, teamRosterVars, teamStatsVars, playerVars>>
    /\ UNCHANGED lifecycleVars

LeagueContext_set_trade_deadline(deadline) ==
    /\ entity = "LeagueContext"
    /\ context' = [context EXCEPT !.trade_deadline = deadline]
    /\ ContextPublish(Event("TRADE_DEADLINE_PASSED", deadline))
    /\ ret' = Returns(PyNone)
    /\ Called("set_trade_deadline", deadline, "none")
    /\ UNCHANGED ea_match
    /\ UNCHANGED <<leagueTeamVars, teamRosterVars, teamStatsVars, playerVars>>
    /\ UNCHANGED lifecycleVars

LeagueContext_start_season ==
    /\ entity = "LeagueContext"
    /\ context' = [context EXCEPT !.is_trading_allowed = TRUE, !.trade_deadline = None]
    /\ ContextPublish(Event("SEASON_STARTED", context.season))
    /\ ret' = Returns(PyNone)
    /\ Called("start_season", << >>, "none")
    /\ UNCHANGED ea_match
    /\ UNCHANGED <<leagueTeamVars, teamRosterVars, teamStatsVars, playerVars>>
    /\ UNCHANGED lifecycleVars

\* mutant: the pending trades survive the end of the season
PendingAfterEndSeason_kept(pending_trades) == pending_trades

\* self._pending_trades.clear()
PendingAfterEndSeason(pending_trades) == << >>

LeagueContext_end_season ==
    /\ entity = "LeagueContext"
    /\ context' = [context EXCEPT
                      !.season = @ + 1,
                      !.is_trading_allowed = FALSE,
                      !.pending_trades = PendingAfterEndSeason(@)]
    /\ ContextPublish(Event("SEASON_ENDED", context.season))
    /\ ret' = Returns(PyNone)
    /\ Called("end_season", << >>, "none")
    /\ UNCHANGED ea_match
    /\ UNCHANGED <<leagueTeamVars, teamRosterVars, teamStatsVars, playerVars>>
    /\ UNCHANGED lifecycleVars

----------------------------------------------------------------------------
(* Construction and the next-state relation *)

Entities ==
    {"league.LeagueTeam", "TeamRoster", "TeamStats", "v2.LeagueTeam",
     "league.LeaguePlayer", "v2.LeaguePlayer", "v2.SeasonStats",
     "game.Match", "game.PlayerStats", "game_stats_service",
     "EventBus", "LeagueContext", "models.LeaguePlayer", "TradePackage",
     "game.TeamStats"}

\* the objects that are not the one under construction keep their defaults
Init ==
    /\ entity \in Entities
    /\ calls = 0
    /\ last = NoCall
    /\ current_roster = {}
    /\ historical_players = << >>
    /\ management = << >>
    /\ active_players = << >>
    /\ inactive_players = << >>
    /\ team_stats = NewTeamStats
    /\ v2_team \in
           [current_season : IF entity = "v2.LeagueTeam" THEN Seasons ELSE {1},
            ea_club_id : IF entity = "v2.LeagueTeam" THEN {None, "100"} ELSE {None},
            season_stats : {<< >>}]
    /\ match_log = << >>
    /\ lg_player \in
           [ea_id : IF entity = "league.LeaguePlayer" THEN {None, ""} \cup EaIds ELSE {None},
            position : Positions, stats : {NewGlobalStats}]
    /\ v2_player \in
           [ea_id : IF entity = "v2.LeaguePlayer" THEN {None, ""} \cup EaIds ELSE {None},
            position : Positions,
            current_season : IF entity = "v2.LeaguePlayer" THEN Seasons ELSE {1},
            season_stats : {<< >>}]
    /\ game_log = << >>
    /\ fold_season = NewSeasonStats(1)
    /\ pool \in IF entity = "v2.SeasonStats" THEN Pools ELSE {<< >>}
    /\ ea_match \in IF entity = "game.Match" THEN EaMatches
                    ELSE {[clubs |-> << >>, players |-> << >>, aggregate |-> << >>]}
    /\ ret = Returns(PyNone)
    /\ context = NewContext
    /\ published = << >>
    /\ handlers = [t \in LeagueEventType |-> << >>]
    /\ received = << >>
    /\ model_player \in
           IF entity = "models.LeaguePlayer"
               THEN {NewPlayer("P1", None, None), NewPlayer("P1", None, "active"),
                     NewPlayer("P1", "T1", "active"), NewPlayer("P1", "T1", "expired")}
               ELSE {NewPlayer("P1", None, None)}
    /\ package \in IF entity = "TradePackage" THEN TradePackages
                   ELSE {create_two_team_trade("T1", << >>, "T2", << >>)}

Next ==
    \/ \E p \in Players : LeagueTeam_add_roster_player(p)
    \/ \E p \in Players : LeagueTeam_remove_roster_player(p)
    \/ \E p \in Players, r \in ManagerRoles : LeagueTeam_add_manager(p, r)
    \/ \E p \in Players : LeagueTeam_remove_manager(p)
    \/ \E p \in Players, m \in MatchUuids, s \in StatsArgs :
           LeagueTeam_update_player_stats(p, m, s)
    \/ \E p \in Players, a \in BOOLEAN : TeamRoster_add_player(p, a)
    \/ \E p \in Players : TeamRoster_remove_player(p)
    \/ \E p \in Players, a \in BOOLEAN : TeamRoster_set_player_status(p, a)
    \/ \E m \in TeamMatchIds, s \in ClubStatsSet : TeamStats_add_match_call(m, s)
    \/ \E match \in Matches : LeagueTeamV2_add_match(match)
    \/ \E match \in PlayerMatches, c \in ClubIds : LeaguePlayer_add_game_stats(match, c)
    \/ \E match \in PlayerMatches, c \in ClubIds : LeaguePlayerV2_add_game_stats(match, c)
    \/ \E id \in GameIds : SeasonStats_add_game(id)
    \/ \E name \in MatchProperties : Match_property(name)
    \/ \E name \in MetricGroups : MatchAnalytics_get_metrics(name)
    \/ \E class \in RecordClasses, data \in PlayerPayloads : PlayerStats_parse(class, data)
    \/ \E json_data \in Batches : parse_game_stats_call(json_data)
    \/ \E t \in BusEventTypes, h \in Handlers : EventBus_subscribe(t, h)
    \/ \E t \in BusEventTypes, h \in Handlers : EventBus_unsubscribe(t, h)
    \/ \E t \in BusEventTypes : EventBus_publish(Event(t, "x"))
    \/ EventBus_clear
    \/ \E t \in {"T1", "T2"} : LeagueContext_register_team([team_id |-> t])
    \/ \E player \in CtxPlayers : LeagueContext_register_player(player)
    \/ \E trade \in Trades : LeagueContext_propose_trade(trade)
    \/ \E trade \in Trades : LeagueContext_execute_trade(trade)
    \/ \E trade \in Trades : LeagueContext_reject_trade(trade)
    \/ \E deadline \in {"past", "future"} : LeagueContext_set_trade_deadline(deadline)
    \/ LeagueContext_start_season
    \/ LeagueContext_end_season
    \/ \E target \in {"self", "returned"}, team_id \in {"T1", "T2"},
          start_date \in {None, "past"} :
           LeaguePlayer_sign_with_team(target, team_id, start_date)
    \/ \E target \in {"self", "returned"} : LeaguePlayer_trade_to_team(target, "T2")
    \/ \E target \in {"self", "returned"} : LeaguePlayer_release_from_team(target)
    \/ \E target \in {"self", "returned"} : LeaguePlayer_expire_contract(target)
    \/ TradePackage_execute_trade_call
    \/ \E penalty_minutes \in 0..MaxPenaltyMinutes :
           TeamStats_set_major_minor_penalties(penalty_minutes)

Spec == Init /\ [][Next]_vars

----------------------------------------------------------------------------
(* Claims *)

\* a step that is a call of method op
IsCall(op) == calls' = calls + 1 /\ last'.op = op

\* C1: every player id that is a key of management is in current_roster, and
\* remove_roster_player(p) with p in management leaves current_roster unchanged.
C1_ManagersStayOnRoster ==
    /\ [](DOMAIN management \subseteq current_roster)
    /\ [][(IsCall("remove_roster_player") /\ last'.arg \in DOMAIN management)
            => current_roster' = current_roster]_vars

C1_Witness ==
    /\ last.op = "remove_roster_player"
    /\ last.arg \in DOMAIN management
    /\ last.arg \in current_roster

RosterOps == {"add_roster_player", "remove_roster_player", "add_manager", "remove_manager"}

\* C9: no roster or manager operation removes or resets an entry of
\* historical_players: after add_roster_player(p) or add_manager(p, r) the id p
\* is a key of historical_players and stays one, a roster or manager operation
\* (re-adding p included) leaves every existing stats bucket as it was, and
\* current_roster is always a subset of the keys of historical_players.
C9_HistoryIsNeverDropped ==
    /\ [](current_roster \subseteq DOMAIN historical_players)
    /\ [][DOMAIN historical_players \subseteq DOMAIN historical_players']_vars
    /\ [][(IsCall("add_roster_player") \/ IsCall("add_manager"))
            => last'.arg \in DOMAIN historical_players']_vars
    /\ [][(calls' = calls + 1 /\ last'.op \in RosterOps)
            => \A p \in DOMAIN historical_players :
                   historical_players'[p] = historical_players[p]]_vars

\* a player with recorded games is re-added to the roster after having left it
C9_Witness ==
    /\ last.op = "add_roster_player"
    /\ last.arg \in current_roster
    /\ historical_players[last.arg].games_played > 0

\* C10 as stated: removing an absent id raises and changes nothing, for
\* LeagueTeam.remove_roster_player, LeagueTeam.remove_manager and
\* TeamRoster.remove_player alike.
C10_Original ==
    /\ [][(IsCall("remove_roster_player") /\ last'.arg \notin current_roster)
            => (last'.raised # "none" /\ UNCHANGED leagueTeamVars)]_vars
    /\ [][(IsCall("remove_manager") /\ last'.arg \notin DOMAIN management)
            => (last'.raised # "none" /\ UNCHANGED leagueTeamVars)]_vars
    /\ [][(IsCall("remove_player") /\ ~InList(all_players, last'.arg))
            => (last'.raised # "none" /\ UNCHANGED teamRosterVars)]_vars

\* C10 amended: TeamRoster.remove_player(p) with p on neither list raises
\* ValueError and changes nothing, while LeagueTeam.remove_roster_player(p) with
\* p not in current_roster and LeagueTeam.remove_manager(p) with p not in
\* management return normally, without an error, and change nothing.
C10_RemoveAbsent ==
    /\ [][(IsCall("remove_roster_player") /\ last'.arg \notin current_roster)
            => (last'.raised = "none" /\ UNCHANGED leagueTeamVars)]_vars
    /\ [][(IsCall("remove_manager") /\ last'.arg \notin DOMAIN management)
            => (last'.raised = "none" /\ UNCHANGED leagueTeamVars)]_vars
    /\ [][(IsCall("remove_player") /\ ~InList(all_players, last'.arg))
            => (last'.raised = "ValueError" /\ UNCHANGED teamRosterVars)]_vars

\* remove_roster_player returned normally for an id the team has never seen
C10_Witness ==
    /\ last.op = "remove_roster_player"
    /\ last.raised = "none"
    /\ last.arg \notin DOMAIN historical_players

\* the team accumulators of the object under construction
Accs ==
    IF entity = "TeamStats" THEN {team_stats}
    ELSE IF entity = "v2.LeagueTeam"
        THEN {v2_team.season_stats[y] : y \in DOMAIN v2_team.season_stats}
    ELSE {}

RECURSIVE LogSum(_, _)
\* sum of field f of the stats over the logged add_match calls
LogSum(log, f) == IF log = << >> THEN 0 ELSE log[1].stats[f] + LogSum(Tail(log), f)

LogIds(log) == {log[i].match_id : i \in 1..Len(log)}
LogWins(log) == {i \in 1..Len(log) : log[i].stats.goals > log[i].stats.goals_against}

\* C2: each add_match call increments exactly one of wins and losses, wins iff
\* the match's goals > goals_against and losses otherwise (a tied score
\* included), so that wins + losses == matches_played after any calls.
C2_WinsPlusLosses ==
    \A acc \in Accs :
        /\ acc.matches_played = Len(match_log)
        /\ acc.wins = Cardinality(LogWins(match_log))
        /\ acc.losses = Len(match_log) - Cardinality(LogWins(match_log))
        /\ acc.wins + acc.losses = acc.matches_played

\* a tied match has been counted, as a loss, next to a win
C2_Witness ==
    \E acc \in Accs :
        /\ acc.wins = 1
        /\ acc.losses = 1
        /\ \E i \in 1..Len(match_log) :
               match_log[i].stats.goals = match_log[i].stats.goals_against

\* C3: after any add_match calls on a fresh accumulator goals_for,
\* goals_against, shots, powerplay goals/opportunities and time_on_attack are
\* the sums of the calls' values, and goal_differential is goals_for minus
\* goals_against.
C3_TotalsAreSums ==
    \A acc \in Accs :
        /\ acc.goals_for = LogSum(match_log, "goals")
        /\ acc.goals_against = LogSum(match_log, "goals_against")
        /\ acc.shots = LogSum(match_log, "shots")
        /\ acc.powerplay_goals = LogSum(match_log, "powerplay_goals")
        /\ acc.powerplay_opportunities = LogSum(match_log, "powerplay_opportunities")
        /\ acc.time_on_attack = LogSum(match_log, "time_on_attack")
        /\ goal_differential(acc) =
               LogSum(match_log, "goals") - LogSum(match_log, "goals_against")

C3_Witness ==
    \E acc \in Accs :
        /\ acc.matches_played >= 2
        /\ acc.goals_for # acc.goals_against
        /\ acc.time_on_attack > 0

\* the step is an add_match call whose match id is already stored
ReAddsMatch ==
    /\ Len(match_log') = Len(match_log) + 1
    /\ match_log'[Len(match_log')].match_id \in LogIds(match_log)

\* C7: add_match with a match id that is already stored counts the match
\* again (matches_played and the running totals grow) while the matches map
\* keeps one entry for the id, so matches_played >= the number of stored
\* matches, with equality exactly when all ingested ids were distinct.
C7_DuplicateIdsDoubleCount ==
    /\ [](\A acc \in Accs :
            /\ DOMAIN acc.matches = LogIds(match_log)
            /\ acc.matches_played = Len(match_log)
            /\ acc.matches_played >= Cardinality(DOMAIN acc.matches)
            /\ (acc.matches_played = Cardinality(DOMAIN acc.matches))
                  <=> (Cardinality(LogIds(match_log)) = Len(match_log)))
    /\ [][ReAddsMatch =>
            \A acc \in Accs : \A new \in Accs' :
                LET stats == match_log'[Len(match_log')].stats
                IN  /\ DOMAIN new.matches = DOMAIN acc.matches
                    /\ new.matches_played = acc.matches_played + 1
                    /\ new.wins + new.losses = acc.wins + acc.losses + 1
                    /\ new.goals_for = acc.goals_for + stats.goals
                    /\ new.goals_against = acc.goals_against + stats.goals_against
                    /\ new.shots = acc.shots + stats.shots
                    /\ new.powerplay_goals = acc.powerplay_goals + stats.powerplay_goals
                    /\ new.powerplay_opportunities =
                           acc.powerplay_opportunities + stats.powerplay_opportunities
                    /\ new.time_on_attack = acc.time_on_attack + stats.time_on_attack]_vars

\* the same match id was ingested twice
C7_Witness ==
    \E acc \in Accs :
        /\ acc.matches_played = 2
        /\ Cardinality(DOMAIN acc.matches) = 1
        /\ acc.goals_for = 6

\* the player stats containers of the object under construction
PStats ==
    IF entity = "league.LeaguePlayer" THEN {lg_player.stats}
    ELSE IF entity = "v2.LeaguePlayer"
        THEN {v2_player.season_stats[y] : y \in DOMAIN v2_player.season_stats}
    ELSE {}

\* the step is an add_game_stats call that counts a match (same id, same
\* stats) that was counted before
ReAddsGame ==
    /\ Len(game_log') = Len(game_log) + 1
    /\ \E i \in 1..Len(game_log) : game_log[i] = game_log'[Len(game_log')]

\* C4: add_game_stats called twice with the same match, for a player who is in
\* it, increases games_played by 2: every counted call adds 1, the repeated one
\* included.
C4_SameMatchCountsTwice ==
    /\ [](\A st \in PStats : st.games_played = Len(game_log))
    /\ [][ReAddsGame =>
            \A st \in PStats : \A new \in PStats' :
                new.games_played = st.games_played + 1]_vars

\* one match was ingested twice: two games played, one game stored
C4_Witness ==
    /\ Len(game_log) = 2
    /\ game_log[1] = game_log[2]
    /\ \E st \in PStats : st.games_played = 2 /\ Len(st.game_stats) = 1

RECURSIVE PoolSum(_, _, _)
\* sum of field f over the games of the pool with the given ids
PoolSum(games, ids, f) ==
    IF ids = {} THEN 0
    ELSE LET k == CHOOSE x \in ids : TRUE
         IN  games[k][f] + PoolSum(games, ids \ {k}, f)

\* the logged games that were stored, by the key they were stored under: for
\* each key the stats logged last
LatestByKey(log) ==
    LET keys == [i \in 1..Len(log) |-> UUID(HexStr(log[i].match_id))]
        stored == {i \in 1..Len(log) : keys[i].raised = "none"}
        last_of(k) == CHOOSE j \in stored :
                          /\ keys[j].value = k
                          /\ \A m \in stored : keys[m].value = k => m <= j
    IN  [k \in {keys[i].value : i \in stored} |-> log[last_of(k)].stats]

\* C5: every player total is the sum of its field over the entries in
\* game_stats, and game_stats holds one entry per stored match id, the one
\* added last: a game that is added again replaces its entry and counts once.
C5_TotalsFollowGameStats ==
    LET latest == LatestByKey(game_log)
        Sum(f) == PoolSum(latest, DOMAIN latest, f)
    IN  /\ entity = "league.LeaguePlayer" =>
             LET st == lg_player.stats
             IN  /\ OKeys(st.game_stats) = DOMAIN latest
                 /\ Len(st.game_stats) = Cardinality(DOMAIN latest)
                 /\ PlayerStats_goals(st) = Sum("skgoals")
                 /\ PlayerStats_assists(st) = Sum("skassists")
                 /\ PlayerStats_points(st) = Sum("skgoals") + Sum("skassists")
                 /\ PlayerStats_shots(st) = Sum("skshots")
                 /\ PlayerStats_hits(st) = Sum("skhits")
                 /\ PlayerStats_takeaways(st) = Sum("sktakeaways")
                 /\ PlayerStats_giveaways(st) = Sum("skgiveaways")
                 /\ PlayerStats_penalty_minutes(st) = Sum("skpim")
                 /\ PlayerStats_plus_minus(st) = Sum("skplusmin")
        /\ entity = "v2.LeaguePlayer" =>
             \A st \in PStats :
                 /\ OKeys(st.game_stats) = DOMAIN latest
                 /\ Len(st.game_stats) = Cardinality(DOMAIN latest)
                 /\ SeasonStats_goals(st) = Sum("skgoals")
                 /\ SeasonStats_assists(st) = Sum("skassists")
                 /\ SeasonStats_points(st) = Sum("skgoals") + Sum("skassists")
                 /\ SeasonStats_shots(st) = Sum("skshots")
                 /\ SeasonStats_hits(st) = Sum("skhits")
                 /\ SeasonStats_takeaways(st) = Sum("sktakeaways")
                 /\ SeasonStats_giveaways(st) = Sum("skgiveaways")
                 /\ SeasonStats_penalty_minutes(st) = Sum("skpim")
                 /\ SeasonStats_plus_minus(st) = Sum("skplusmin")

\* a match id was added a second time with other stats, which replaced the first
C5_Witness ==
    /\ Len(game_log) = 2
    /\ game_log[1].match_id = game_log[2].match_id
    /\ game_log[1].stats.skgoals = 3
    /\ game_log[2].stats.skgoals = 1
    /\ \E st \in PStats : Len(st.game_stats) = 1 /\ SeasonStats_goals(st) = 1

\* C6: for games with pairwise distinct ids, added in any order, goals is the
\* sum of the games' goals and shooting_percentage is
\* round(goals / shots * 100, 2) of the summed goals and shots, 0.0 without
\* shots: the result does not depend on the order.
C6_FoldIsOrderIndependent ==
    entity = "v2.SeasonStats" =>
        LET added == OKeys(fold_season.game_stats)
            goals == PoolSum(pool, added, "skgoals")
            shots == PoolSum(pool, added, "skshots")
        IN  /\ added \subseteq DOMAIN pool
            /\ SeasonStats_goals(fold_season) = goals
            /\ SeasonStats_shooting_percentage(fold_season) =
                   IF shots > 0 THEN Round2(goals * 100, shots) ELSE Returns(0)

\* three games were added in the order g3, g1, g2, the first with 1 goal and
\* the last with 3 goals
C6_Witness ==
    /\ entity = "v2.SeasonStats"
    /\ Len(fold_season.game_stats) = 3
    /\ fold_season.game_stats[1].key = "g3"
    /\ fold_season.game_stats[2].key = "g1"
    /\ fold_season.game_stats[1].value.skgoals = 1
    /\ fold_season.game_stats[3].value.skgoals = 3

\* the league_v2 season accumulators of the object under construction
SeasonStatsObjs ==
    IF entity = "v2.LeaguePlayer"
        THEN {v2_player.season_stats[y] : y \in DOMAIN v2_player.season_stats}
    ELSE IF entity = "v2.SeasonStats" THEN {fold_season}
    ELSE {}

SeasonTeamStatsObjs ==
    IF entity = "v2.LeagueTeam"
        THEN {v2_team.season_stats[y] : y \in DOMAIN v2_team.season_stats}
    ELSE {}

\* C8: no season-level rate raises, and a rate whose denominator is zero is
\* 0.0: the player's shooting_percentage, points_per_game and
\* takeaway_giveaway_ratio, the team's win_percentage, goals_per_game,
\* shooting_percentage, powerplay_percentage and time_on_attack_per_game;
\* the team's penalty_kill_percentage is 100.0 without opportunities.
C8_ZeroDenominators ==
    /\ \A st \in SeasonStatsObjs :
        /\ SeasonStats_shooting_percentage(st).raised = "none"
        /\ points_per_game(st).raised = "none"
        /\ takeaway_giveaway_ratio(st).raised = "none"
        /\ SeasonStats_shots(st) = 0 => SeasonStats_shooting_percentage(st) = Returns(0)
        /\ st.games_played = 0 => points_per_game(st) = Returns(0)
        /\ SeasonStats_giveaways(st) = 0 => takeaway_giveaway_ratio(st) = Returns(0)
    /\ \A acc \in SeasonTeamStatsObjs :
        /\ win_percentage(acc).raised = "none"
        /\ goals_per_game(acc).raised = "none"
        /\ goals_against_per_game(acc).raised = "none"
        /\ SeasonTeamStats_shooting_percentage(acc).raised = "none"
        /\ powerplay_percentage(acc).raised = "none"
        /\ penalty_kill_percentage(acc).raised = "none"
        /\ time_on_attack_per_game(acc).raised = "none"
        /\ acc.matches_played = 0 =>
              /\ win_percentage(acc) = Returns(0)
              /\ goals_per_game(acc) = Returns(0)
              /\ time_on_attack_per_game(acc) = Returns(0)
        /\ acc.shots = 0 => SeasonTeamStats_shooting_percentage(acc) = Returns(0)
        /\ acc.powerplay_opportunities = 0 => powerplay_percentage(acc) = Returns(0)
        /\ acc.penalty_kill_opportunities = 0 =>
              penalty_kill_percentage(acc) = Returns(10000)

\* a season of a team that exists and has no match yet
C8_Witness ==
    \E acc \in SeasonTeamStatsObjs :
        /\ calls > 0
        /\ acc.matches_played = 0
        /\ acc.penalty_kill_opportunities = 0

----------------------------------------------------------------------------
(* Claims about Match and MatchAnalytics *)

\* the side a property of the match looks up
SideOf(op) ==
    IF op \in {"home_club_id", "home_club", "home_players", "home_aggregate"}
        THEN 0 ELSE 1

\* club number i is the first club of that side in mapping order
FirstOfSide(i, side) ==
    /\ ea_match.clubs[i].value.team_side = side
    /\ \A j \in 1..(i - 1) : ea_match.clubs[j].value.team_side # side

ClubMissing(side) ==
    ~\E i \in 1..Len(ea_match.clubs) : ea_match.clubs[i].value.team_side = side

AggregateMissing(side) ==
    \A i \in 1..Len(ea_match.clubs) :
        FirstOfSide(i, side) => ea_match.clubs[i].key \notin DOMAIN ea_match.aggregate

\* C11: home_club_id returns the first key of clubs, in mapping order, whose
\* team_side is 0 and away_club_id the first whose team_side is 1; when no
\* club has that side the id lookup returns None and the derived club and
\* aggregate lookups return None and the players lookup an empty mapping,
\* none of them raising.
C11_HomeAwayLookups ==
    (entity = "game.Match" /\ last.op \in MatchProperties) =>
        LET side == SideOf(last.op)
        IN  /\ last.raised = "none"
            /\ ret.raised = "none"
            /\ last.op \in {"home_club_id", "away_club_id"} =>
                   IF ClubMissing(side) THEN ret.value = None
                   ELSE \E i \in 1..Len(ea_match.clubs) :
                            FirstOfSide(i, side) /\ ret.value = ea_match.clubs[i].key
            /\ (ClubMissing(side) /\ last.op \in {"home_club", "away_club",
                                                  "home_aggregate", "away_aggregate"})
                   => ret.value = PyNone
            /\ (ClubMissing(side) /\ last.op \in {"home_players", "away_players"})
                   => ret.value = << >>

\* home_club_id has been read on a match with two clubs of side 0 and has
\* given the key of the first
C11_Witness ==
    /\ entity = "game.Match"
    /\ last.op = "home_club_id"
    /\ Len(ea_match.clubs) = 2
    /\ \A i \in 1..2 : ea_match.clubs[i].value.team_side = 0
    /\ ret.value = ea_match.clubs[1].key

\* C12: each of get_possession_metrics, get_efficiency_metrics,
\* get_special_teams_metrics and get_momentum_metrics returns None, without
\* raising, whenever a home or away club or aggregate that it reads is missing
\* from the match.
C12_MissingInputsGiveNone ==
    (entity = "game.Match" /\ last.op \in MetricGroups) =>
        LET clubMissing == ClubMissing(0) \/ ClubMissing(1)
            aggregateMissing == AggregateMissing(0) \/ AggregateMissing(1)
            missing == CASE last.op = "get_possession_metrics" ->
                                clubMissing \/ aggregateMissing
                         [] last.op = "get_momentum_metrics" -> aggregateMissing
                         [] OTHER -> clubMissing
        IN  /\ last.raised = "none"
            /\ missing => ret = Returns(PyNone)

\* get_momentum_metrics has returned None for a match that has a home and an
\* away club but no aggregate
C12_Witness ==
    /\ entity = "game.Match"
    /\ last.op = "get_momentum_metrics"
    /\ ~ClubMissing(0)
    /\ ~ClubMissing(1)
    /\ DOMAIN ea_match.aggregate = {}
    /\ ret = Returns(PyNone)

\* 10 * S for the two aggregates
MomentumTenths(h, a) ==
    10 * (h.skshots - a.skshots) + 5 * (h.skhits - a.skhits)
        + 7 * ((h.sktakeaways - h.skgiveaways) - (a.sktakeaways - a.skgiveaways))

\* C13: with S = shot_diff * 1.0 + hit_diff * 0.5 + (home net takeaways -
\* away net takeaways) * 0.7, get_momentum_metrics returns home_score = S and
\* away_score = 0 when S > 0, and home_score = 0 and away_score = |S|
\* otherwise; the two scores are never both positive.
C13_MomentumScores ==
    (entity = "game.Match" /\ last.op = "get_momentum_metrics" /\ ret.value # PyNone) =>
        LET S10 == MomentumTenths(home_aggregate(ea_match), away_aggregate(ea_match))
            home == ret.value.home_score
            away == ret.value.away_score
        IN  /\ IF S10 > 0
                 THEN home.num * 10 = S10 * home.den /\ away.num = 0
                 ELSE home.num = 0 /\ away.num * 10 = (-S10) * away.den
            /\ ~(home.num > 0 /\ away.num > 0)

\* get_momentum_metrics has given the away side a positive score
C13_Witness ==
    /\ entity = "game.Match"
    /\ last.op = "get_momentum_metrics"
    /\ ret.value # PyNone
    /\ ret.value.away_score.num > 0
    /\ ret.value.home_score.num = 0

\* the match of the scenario: home 10 goals on 22 shots, away 11 on 26
ScenarioMatch ==
    /\ home_club(ea_match) # PyNone
    /\ away_club(ea_match) # PyNone
    /\ home_club(ea_match).goals = 10
    /\ home_club(ea_match).shots = 22
    /\ away_club(ea_match).goals = 11
    /\ away_club(ea_match).shots = 26

\* C14 as stated: get_efficiency_metrics returns each side's shooting
\* efficiency as goals / shots * 100 rounded to 2 decimals (0.0 when shots = 0);
\* for 10 goals on 22 shots and 11 goals on 26 shots exactly 45.45 and 42.31.
C14_Original ==
    (entity = "game.Match" /\ last.op = "get_efficiency_metrics" /\ ret.value # PyNone) =>
        LET rounded(club) ==
                IF club.shots = 0 THEN Float(0, 1)
                ELSE Float(Round2(club.goals * 100, club.shots).value, 100)
        IN  /\ ret.value.home_shooting_efficiency = rounded(home_club(ea_match))
            /\ ret.value.away_shooting_efficiency = rounded(away_club(ea_match))
            /\ ScenarioMatch =>
                   /\ ret.value.home_shooting_efficiency = Float(4545, 100)
                   /\ ret.value.away_shooting_efficiency = Float(4231, 100)

\* C14, amended: get_efficiency_metrics returns each side's shooting
\* efficiency as the quotient goals / shots * 100 itself, not rounded (0.0
\* when shots = 0); for 10 goals on 22 shots and 11 goals on 26 shots the
\* values are not 45.45 and 42.31 but round to them.
C14_ShootingEfficiencyUnrounded ==
    (entity = "game.Match" /\ last.op = "get_efficiency_metrics" /\ ret.value # PyNone) =>
        LET exact(x, club) ==
                IF club.shots = 0 THEN x.num = 0
                ELSE x.num * club.shots = club.goals * 100 * x.den
            home == ret.value.home_shooting_efficiency
            away == ret.value.away_shooting_efficiency
        IN  /\ exact(home, home_club(ea_match))
            /\ exact(away, away_club(ea_match))
            /\ ScenarioMatch =>
                   /\ home # Float(4545, 100)
                   /\ away # Float(4231, 100)
                   /\ Round2(home.num, home.den) = Returns(4545)
                   /\ Round2(away.num, away.den) = Returns(4231)

\* get_efficiency_metrics has returned the metrics of the scenario's match
C14_Witness ==
    /\ entity = "game.Match"
    /\ last.op = "get_efficiency_metrics"
    /\ ret.value # PyNone
    /\ ScenarioMatch

----------------------------------------------------------------------------
(* Claims about parsing *)

\* the keys of the payload that the record class declares as fields
DeclaredFields(class) ==
    IF class = "player.PlayerStats" THEN {f.name : f \in PlayerStatsFields}
    ELSE {"position", "skgoals", "skfopct"}

\* C15: for every raw player stat payload and every field of it, if the
\* field's value is exactly the string "--" then parsing succeeds and the
\* parsed record's field is None, whether the field is a str, an int or a
\* float.
C15_Original ==
    (entity = "game.PlayerStats" /\ last.op \in RecordClasses) =>
        \A f \in DOMAIN last.arg \cap DeclaredFields(last.op) :
            last.arg[f] = Dashes =>
                /\ ret.raised = "none"
                /\ ret.value[f] = PyNone

\* the indexes of the matches of a batch that validate
ValidIndexes(batch) ==
    {i \in 1..Len(batch) : Match_model_validate(batch[i]).raised = "none"}

\* C16: parse_game_stats over a batch returns exactly the matches that
\* validate, in input order: a match that fails validation is skipped and
\* keeps no earlier or later match of the batch from being returned.
C16_BatchSkipsInvalid ==
    (entity = "game_stats_service" /\ last.op = "parse_game_stats") =>
        LET batch == last.arg
            valid == ValidIndexes(batch)
            nth(k) == CHOOSE i \in valid : Cardinality({j \in valid : j < i}) = k - 1
        IN  /\ last.raised = "none"
            /\ ret.raised = "none"
            /\ Len(ret.value) = Cardinality(valid)
            /\ \A k \in 1..Len(ret.value) :
                   ret.value[k] = Match_model_validate(batch[nth(k)]).value

\* a batch whose first match fails validation and whose second match
\* validates has been parsed into the second match alone
C16_Witness ==
    /\ entity = "game_stats_service"
    /\ last.op = "parse_game_stats"
    /\ Len(last.arg) >= 2
    /\ 1 \notin ValidIndexes(last.arg)
    /\ 2 \in ValidIndexes(last.arg)
    /\ Len(ret.value) >= 1
    /\ ret.value[1] = Match_model_validate(last.arg[2]).value

----------------------------------------------------------------------------
(* Claims about LeagueContext and EventBus *)

\* C17: register_team / register_player with an id that is already registered
\* raises ValueError, leaves the registries unchanged and publishes no event;
\* a successful registration adds exactly that entry and publishes exactly
\* one TEAM_REGISTERED / PLAYER_REGISTERED event.
C17_RegistrationIsChecked ==
    /\ [][IsCall("register_team") =>
            LET team == last'.arg
            IN  IF team.team_id \in DOMAIN context.teams
                  THEN last'.raised = "ValueError" /\ UNCHANGED <<context, published>>
                  ELSE /\ last'.raised = "none"
                       /\ DOMAIN context'.teams = DOMAIN context.teams \cup {team.team_id}
                       /\ context'.teams[team.team_id] = team
                       /\ \A t \in DOMAIN context.teams :
                              context'.teams[t] = context.teams[t]
                       /\ context'.players = context.players
                       /\ published' =
                              Append(published, Event("TEAM_REGISTERED", team.team_id))]_vars
    /\ [][IsCall("register_player") =>
            LET player == last'.arg
            IN  IF player.player_id \in DOMAIN context.players
                  THEN last'.raised = "ValueError" /\ UNCHANGED <<context, published>>
                  ELSE /\ last'.raised = "none"
                       /\ DOMAIN context'.players =
                              DOMAIN context.players \cup {player.player_id}
                       /\ context'.players[player.player_id] = player
                       /\ \A p \in DOMAIN context.players :
                              context'.players[p] = context.players[p]
                       /\ context'.teams = context.teams
                       /\ published' =
                              Append(published, Event("PLAYER_REGISTERED", player.player_id))]_vars

\* a team has been registered, and registering it again has raised
C17_Witness ==
    /\ entity = "LeagueContext"
    /\ last.op = "register_team"
    /\ last.raised = "ValueError"
    /\ last.arg.team_id \in DOMAIN context.teams
    /\ published = <<Event("TEAM_REGISTERED", last.arg.team_id)>>

\* C18: after a successful execute_trade(t) or reject_trade(t), t is not in
\* pending_trades, whatever propose_trade calls came before (t proposed more
\* than once included), so that t cannot be executed or rejected again unless
\* it is proposed again.
C18_Original ==
    [][((IsCall("execute_trade") \/ IsCall("reject_trade")) /\ last'.raised = "none")
          => ~InList(context'.pending_trades, last'.arg)]_vars

\* C19: after end_season, pending_trades is empty and stays empty until
\* start_season is called: every propose_trade in between raises ValueError
\* without adding the trade or publishing TRADE_PROPOSED; end_season increases
\* season by exactly 1, and start_season re-enables trading and clears the
\* deadline.
C19_NoTradesBetweenSeasons ==
    /\ [][IsCall("end_season") =>
            /\ context'.pending_trades = << >>
            /\ ~context'.is_trading_allowed
            /\ context'.season = context.season + 1]_vars
    /\ [][(/\ ~context.is_trading_allowed
           /\ context.pending_trades = << >>
           /\ ~IsCall("start_season"))
            => (context'.pending_trades = << >> /\ ~context'.is_trading_allowed)]_vars
    /\ [][(IsCall("propose_trade") /\ ~context.is_trading_allowed)
            => (last'.raised = "ValueError" /\ UNCHANGED <<context, published>>)]_vars
    /\ [][IsCall("start_season") =>
            (context'.is_trading_allowed /\ context'.trade_deadline = None)]_vars

\* a trade that validates has been proposed after the end of a season that
\* had a pending trade, and has been refused
C19_Witness ==
    /\ entity = "LeagueContext"
    /\ last.op = "propose_trade"
    /\ last.raised = "ValueError"
    /\ validate_trade(last.arg) = "none"
    /\ ~context.is_trading_allowed
    /\ context.pending_trades = << >>
    /\ \E i \in 1..Len(published) : published[i].event_type = "TRADE_PROPOSED"
    /\ published[Len(published)].event_type = "SEASON_ENDED"

\* C20: EventBus.publish never raises because of a handler: when a subscribed
\* handler raises, every other handler subscribed to the same event type is
\* still called with the event, in subscription order (the handlers either
\* return or raise: none of them changes the subscriptions of the bus).
C20_PublishSurvivesHandlerErrors ==
    [][(/\ IsCall("publish")
        /\ \A i \in 1..Len(handlers[last'.arg.event_type]) :
               handlers[last'.arg.event_type][i] \in {"h1", "h2"}) =>
          LET event == last'.arg
              list == handlers[event.event_type]
          IN  /\ last'.raised = "none"
              /\ Len(received') = Len(received) + Len(list)
              /\ \A i \in 1..Len(received) : received'[i] = received[i]
              /\ \A i \in 1..Len(list) :
                     received'[Len(received) + i] =
                         [handler |-> list[i], event |-> event]]_vars

\* an event has been published to a raising handler followed by another
\* handler, and both have been called
C20_Witness ==
    /\ entity = "EventBus"
    /\ last.op = "publish"
    /\ last.raised = "none"
    /\ handlers[last.arg.event_type] = <<"h2", "h1">>
    /\ received = <<[handler |-> "h2", event |-> last.arg],
                    [handler |-> "h1", event |-> last.arg]>>

\* the handlers of the list either return or raise: none of them changes the
\* subscriptions of the bus
PlainHandlers(list) == \A i \in 1..Len(list) : list[i] \in {"h1", "h2"}

\* C21: a publish that follows unsubscribe(event_type, h) with an event of
\* that type does not call h, and a publish that follows clear() calls no
\* handler, whatever subscribe calls came before (h may have been subscribed
\* to the type more than once; the handlers themselves do not subscribe).
C21_Original ==
    [][(/\ IsCall("publish")
        /\ PlainHandlers(handlers[last'.arg.event_type])
        /\ \/ last.op = "clear"
           \/ last.op = "unsubscribe" /\ last.arg[1] = last'.arg.event_type) =>
          \A i \in (Len(received) + 1)..Len(received') :
              /\ last.op # "clear"
              /\ received'[i].handler # last.arg[2]]_vars

\* C26: publish(e) calls the handlers that are subscribed to e.event_type
\* when publish is called, each of them once and in subscription order, also
\* when one of them subscribes or unsubscribes a handler of the bus while it
\* is called (no handler is subscribed twice when publish is called).
C26_Original ==
    [][IsCall("publish") =>
          LET event == last'.arg
              list == handlers[event.event_type]
          IN  (\A i, j \in 1..Len(list) : list[i] = list[j] => i = j) =>
                  /\ Len(received') = Len(received) + Len(list)
                  /\ \A i \in 1..Len(list) :
                         received'[Len(received) + i] =
                             [handler |-> list[i], event |-> event]]_vars

LifecycleOps == {"sign_with_team", "trade_to_team", "release_from_team", "expire_contract"}

\* the state of the receiver that the method does not accept
InvalidFor(op, receiver) ==
    CASE op = "sign_with_team" -> receiver.contract = "active"
      [] op \in {"trade_to_team", "release_from_team"} -> receiver.team_id = None
      [] op = "expire_contract" -> receiver.contract \in {None, "active"}

\* C22: sign_with_team of a player under an active contract, trade_to_team
\* and release_from_team of a player without team, and expire_contract of a
\* player without contract or with an active one raise ValueError, and the
\* player is as before: nothing has been added to its history.
C22_InvalidLifecycleCallsRecordNothing ==
    [][(\E op \in LifecycleOps : IsCall(op) /\ InvalidFor(op, last'.arg[1])) =>
          /\ last'.raised = "ValueError"
          /\ ret'.raised = "ValueError"
          /\ model_player' = last'.arg[1]]_vars

\* a player that has signed with a team has been asked to expire its
\* contract, which is still active
C22_Witness ==
    /\ entity = "models.LeaguePlayer"
    /\ last.op = "expire_contract"
    /\ last.arg[1].contract = "active"
    /\ last.raised = "ValueError"
    /\ Len(model_player.history.transactions) = 1
    /\ Len(model_player.history.contracts) = 1

\* C29: a successful sign_with_team, trade_to_team, release_from_team or
\* expire_contract leaves the player it is called on as it was: its team_id,
\* contract and history are those it had before the call.
C29_Original ==
    [][(\E op \in LifecycleOps : IsCall(op) /\ last'.raised = "none") =>
          model_player' = last'.arg[1]]_vars

\* the positions <<participant, index>> of the outgoing players of a package
OutgoingOf(trade) ==
    UNION {{<<i, k>> : k \in 1..Len(trade.participants[i].outgoing_players)} :
              i \in 1..Len(trade.participants)}

\* the outgoing players of the package that a participant of another team
\* lists as incoming, each with the team of the first such participant
TradeMoves(trade) ==
    LET ps == trade.participants
    IN  {[player |-> ps[i].outgoing_players[k],
          to |-> ps[CHOOSE j \in 1..Len(ps) :
                     /\ ps[j].team_id # ps[i].team_id
                     /\ InList(ps[j].incoming_players, ps[i].outgoing_players[k])
                     /\ \A l \in 1..(j - 1) :
                            \/ ps[l].team_id = ps[i].team_id
                            \/ ~InList(ps[l].incoming_players,
                                       ps[i].outgoing_players[k])].team_id] :
            <<i, k>> \in {<<i, k>> \in OutgoingOf(trade) :
                /\ \E j \in 1..Len(ps) :
                       /\ ps[j].team_id # ps[i].team_id
                       /\ InList(ps[j].incoming_players, ps[i].outgoing_players[k])}}

\* C23: execute_trade on a valid package returns one updated player for each
\* outgoing player that a participant of another team lists as incoming:
\* with the player_id and the contract of the player, the team_id of the
\* participant that receives it, and the history of the player with one
\* TRADE transaction added.
C23_ExecuteTradeMovesPlayers ==
    [][(IsCall("TradePackage.execute_trade") /\ last'.raised = "none") =>
          LET moves == TradeMoves(package)
              updated == ret'.value
          IN  /\ Len(updated) = Cardinality(moves)
              /\ \A mv \in moves :
                     \E u \in 1..Len(updated) :
                         /\ \A v \in 1..Len(updated) :
                                updated[v].player_id = mv.player.player_id => v = u
                         /\ updated[u].contract = mv.player.contract
                         /\ updated[u].team_id = mv.to
                         /\ updated[u].history.contracts = mv.player.history.contracts
                         /\ updated[u].history.transactions =
                                Append(mv.player.history.transactions,
                                       [type |-> "TRADE",
                                        from_team_id |-> mv.player.team_id,
                                        to_team_id |-> mv.to])]_vars

\* the three-team cycle has been executed: P1 is on T3, P2 on T1, P3 on T2
C23_Witness ==
    /\ entity = "TradePackage"
    /\ last.op = "TradePackage.execute_trade"
    /\ last.raised = "none"
    /\ Len(last.arg.participants) = 3
    /\ Len(ret.value) = 3
    /\ \A u \in 1..3 :
           /\ <<ret.value[u].player_id, ret.value[u].team_id>> \in
                  {<<"P1", "T3">>, <<"P2", "T1">>, <<"P3", "T2">>}
           /\ Len(ret.value[u].history.transactions) = 2

\* a player id occurs twice among the outgoing players, or an outgoing
\* player is not of the team of its participant or not under active contract
InvalidPackage(trade) ==
    LET ps == trade.participants
        out == OutgoingOf(trade)
    IN  \/ \E a, b \in out :
               /\ a # b
               /\ ps[a[1]].outgoing_players[a[2]].player_id =
                      ps[b[1]].outgoing_players[b[2]].player_id
        \/ \E a \in out :
               \/ ps[a[1]].outgoing_players[a[2]].team_id # ps[a[1]].team_id
               \/ ps[a[1]].outgoing_players[a[2]].contract # "active"

\* C24: execute_trade on a package with a player id twice among the outgoing
\* players, an outgoing player of another team or an outgoing player without
\* active contract raises ValueError, and the players of the package are as
\* before: no team_id and no history has changed.
C24_InvalidTradeChangesNothing ==
    [][(IsCall("TradePackage.execute_trade") /\ InvalidPackage(package)) =>
          /\ last'.raised = "ValueError"
          /\ ret'.raised = "ValueError"
          /\ package' = package]_vars

\* a package that sends a player under contract and a player without
\* contract has been refused
C24_Witness ==
    /\ entity = "TradePackage"
    /\ last.op = "TradePackage.execute_trade"
    /\ last.raised = "ValueError"
    /\ Len(package.participants[1].outgoing_players) = 2
    /\ package.participants[1].outgoing_players[2].contract = None
    /\ package.participants[1].outgoing_players[1].history.transactions =
           <<[type |-> "FREE_AGENT_SIGNING", from_team_id |-> None, to_team_id |-> "T1"]>>

\* the list without the player
Without(list, player) == SelectSeq(list, LAMBDA q : q # player)

\* C25: no player is twice in all_players (so none is in both active_players
\* and inactive_players); add_player of a player on the roster raises
\* ValueError and leaves both lists as they are; set_player_status of a
\* player on the roster leaves it on the requested list only, and the other
\* players where they were.
C25_RosterListsStayDisjoint ==
    /\ [](\A i, j \in 1..Len(all_players) : all_players[i] = all_players[j] => i = j)
    /\ [][\A player \in Players, active \in BOOLEAN :
              /\ (TeamRoster_add_player(player, active) /\ InList(all_players, player)) =>
                     /\ last'.raised = "ValueError"
                     /\ UNCHANGED <<active_players, inactive_players>>
              /\ (/\ TeamRoster_set_player_status(player, active)
                  /\ InList(all_players, player)) =>
                     /\ last'.raised = "none"
                     /\ active_players' =
                            IF active THEN Append(Without(active_players, player), player)
                            ELSE Without(active_players, player)
                     /\ inactive_players' =
                            IF active THEN Without(inactive_players, player)
                            ELSE Append(Without(inactive_players, player), player)]_vars

\* the first of two active players has been set inactive
C25_Witness ==
    /\ entity = "TeamRoster"
    /\ last.op = "set_player_status"
    /\ last.raised = "none"
    /\ Len(active_players) = 1
    /\ inactive_players = <<last.arg>>
    /\ active_players[1] # last.arg

\* C27: when the matches add_game_stats has counted have pairwise different
\* match ids (ids that UUID accepts), game_stats has one entry for each of
\* them and games_played is their number.
C27_Original ==
    (/\ \A i, j \in 1..Len(game_log) :
            game_log[i].match_id = game_log[j].match_id => i = j
     /\ \A i \in 1..Len(game_log) : UUID(HexStr(game_log[i].match_id)).raised = "none")
        => \A st \in PStats :
               /\ Len(st.game_stats) = Len(game_log)
               /\ st.games_played = Len(game_log)

\* the team accumulators: the league TeamStats and the SeasonTeamStats of
\* the seasons of the league_v2 team
TeamAccumulators ==
    {team_stats} \cup {v2_team.season_stats[y] : y \in DOMAIN v2_team.season_stats}

C30_Original ==
    last.op = "_set_major_minor_penalties" =>
        /\ ret.value.major_penalties >= 0
        /\ ret.value.minor_penalties >= 0
        /\ 5 * ret.value.major_penalties + 2 * ret.value.minor_penalties = last.arg

====
